---- MODULE Spec2Model ----
(***************************************************************************)
(* Model of the BattleScribe conversion pipeline:                          *)
(*   convert_xml.py           the tree normaliser (parse_xml_to_dict)      *)
(*   transform_battlescribe.py the entity extractor (BattleScribeTransformer)*)
(*                                                                         *)
(* Python values are modelled as follows.                                  *)
(*   str    a sequence of symbols (each symbol stands for a run of         *)
(*          characters); " " is the whitespace symbol.  Concatenation is   *)
(*          \o, str.strip() removes leading/trailing whitespace symbols,   *)
(*          `k in s` is "some symbol of s is k".                            *)
(*   SSV    the normaliser's output, a tagged value                        *)
(*            [kind |-> "str",  v |-> str]                                 *)
(*            [kind |-> "rec",  v |-> sequence of <<key, SSV>>]  (a dict,  *)
(*                                     in insertion order, keys unique)    *)
(*            [kind |-> "list", v |-> sequence of SSV]                     *)
(*   an exception leaving an extractor is the outcome Raise.               *)
(***************************************************************************)
EXTENDS Integers, Sequences, FiniteSets, TLC

VARIABLES pc, source, game_system_file, shared_rules, result,
          abilities, stats, rangedWeapons, meleeWeapons, keywords, points,
          datasheet, enhancement,
          source_status, reference_file, transformed, output_file,
          exit_status, printed,
          cat_dir, extension, processed, converted, output_dir

\* the command line of the transformer, its output file and its exit
cli_vars == <<source_status, reference_file, transformed, output_file,
              exit_status, printed>>

\* the batch conversion: the source directory, the loop position, the
\* destination directory
batch_vars == <<cat_dir, extension, processed, converted, output_dir>>

vars == <<pc, source, game_system_file, shared_rules, result,
          abilities, stats, rangedWeapons, meleeWeapons, keywords, points,
          datasheet, enhancement, cli_vars, batch_vars>>

(***************************************************************************)
(* Bounds of the model.                                                    *)
(***************************************************************************)
\* largest number of sibling elements with one tag in a generated document
MaxSiblings == 2

(***************************************************************************)
(* Python values                                                           *)
(***************************************************************************)
\* Python None (dict.get without default, a function returning nothing)
None == [kind |-> "none", v |-> <<>>]

\* an exception that leaves the function (AttributeError, TypeError)
Raise == [kind |-> "raise", v |-> <<>>]

Bool(b) == [kind |-> "bool", v |-> b]

PyInt(n) == [kind |-> "int", v |-> n]

Str(s) == [kind |-> "str", v |-> s]

Rec(fields) == [kind |-> "rec", v |-> fields]

Lst(items) == [kind |-> "list", v |-> items]

IsStr(x) == x.kind = "str"

IsRec(x) == x.kind = "rec"

\* isinstance(x, list)
IsList(x) == x.kind = "list"

\* the keys of a dict, as a set
Keys(d) == {d.v[i][1] : i \in 1..Len(d.v)}

\* d[k] for a dict d that has key k
Item(d, k) == LET i == CHOOSE j \in 1..Len(d.v) : d.v[j][1] = k IN d.v[i][2]

\* d[k] = val on a dict's field sequence: an existing key keeps its place
SetItem(fields, k, val) ==
    IF \E i \in 1..Len(fields) : fields[i][1] = k
    THEN [i \in 1..Len(fields) |->
            IF fields[i][1] = k THEN <<k, val>> ELSE fields[i]]
    ELSE Append(fields, <<k, val>>)

\* `k in x` : dict key test, str substring test, list element test
In(k, x) ==
    CASE IsRec(x)  -> k \in Keys(x)
      [] IsStr(x)  -> \E i \in 1..Len(x.v) : x.v[i] = k
      [] IsList(x) -> \E i \in 1..Len(x.v) : x.v[i] = Str(<<k>>)
      [] OTHER     -> FALSE

\* the whitespace symbols of a str
Whitespace == {" "}

\* str.strip()
RECURSIVE strip(_)
strip(s) ==
    IF s = <<>> THEN s
    ELSE IF Head(s) \in Whitespace THEN strip(Tail(s))
    ELSE IF s[Len(s)] \in Whitespace THEN strip(SubSeq(s, 1, Len(s) - 1))
    ELSE s

(***************************************************************************)
(* XML elements (xml.etree.ElementTree.Element)                            *)
(*   tag      <<namespace, local name>>, namespace "" when there is none   *)
(*   attrib   sequence of <<name, str>>, names unique                      *)
(*   children sequence of elements, in document order                      *)
(*   text     the text before the first child; <<>> when None or empty     *)
(***************************************************************************)
Element(tag, attrib, children, text) ==
    [tag |-> tag, attrib |-> attrib, children |-> children, text |-> text]

\* the two namespaces clean_tag_name knows
KnownNamespaces == {"gameSystemSchema", "catalogueSchema"}

\* clean_tag_name: a known namespace prefix is removed, anything else stays
clean_tag_name(tag) ==
    IF tag[1] \in KnownNamespaces \/ tag[1] = "" THEN tag[2]
    ELSE "{" \o tag[1] \o "}" \o tag[2]

\* `if not isinstance(result[clean_tag], list): result[clean_tag] = [...]`
Coalesced(old) == IF IsList(old) THEN old.v ELSE <<old>>

\* the loop body of parse_xml_to_dict: insert one normalised child
InsertChild(fields, clean_tag, child_data) ==
    IF \E i \in 1..Len(fields) : fields[i][1] = clean_tag
    THEN SetItem(fields, clean_tag,
                 Lst(Append(Coalesced(Item(Rec(fields), clean_tag)), child_data)))
    ELSE Append(fields, <<clean_tag, child_data>>)

\* result.update(element.attrib)
AttribFields(element) ==
    [i \in 1..Len(element.attrib) |->
        <<element.attrib[i][1], Str(element.attrib[i][2])>>]

RECURSIVE parse_xml_to_dict(_)
RECURSIVE ParseChildren(_, _, _)

\* the `for child in element` loop, from child i on
ParseChildren(fields, children, i) ==
    IF i > Len(children) THEN fields
    ELSE ParseChildren(
            InsertChild(fields, clean_tag_name(children[i].tag),
                        parse_xml_to_dict(children[i])),
            children, i + 1)

\* the text step of parse_xml_to_dict, given the fields collected so far
AddText(fields, text) ==
    IF Len(strip(text)) > 0
    THEN IF Len(fields) > 0
         THEN Rec(SetItem(fields, "_text", Str(strip(text))))
         ELSE Str(strip(text))
    ELSE Rec(fields)

parse_xml_to_dict(element) ==
    AddText(ParseChildren(AttribFields(element), element.children, 1),
            element.text)

(***************************************************************************)
(* Python primitives the extractor uses                                    *)
(***************************************************************************)
Raised(x) == x.kind = "raise"

\* d.get(k, default) on a dict d
Get(d, k, default) == IF k \in Keys(d) THEN Item(d, k) ELSE default

\* x if isinstance(x, list) else [x]
AsList(x) == IF IsList(x) THEN x.v ELSE <<x>>

\* find_key_with_prefix(data, key_name) is not None
find_key_with_prefix(data, key_name) == In(key_name, data)

\* `k in x` raises TypeError when x is a number, a boolean or null
InRaises(x) == x.kind \in {"int", "bool", "none"}

\* data[key] after `key in data` succeeded: a str or a list cannot be
\* subscripted with a str (TypeError)
Subscript(data, key) == IF IsRec(data) THEN Item(data, key) ELSE Raise

\* container[inner] behind a find_key_with_prefix test: None when the key is
\* missing, Raise when a str is subscripted
DescendInner(container, inner) ==
    IF ~find_key_with_prefix(container, inner) THEN None
    ELSE Subscript(container, inner)

\* data[outer][inner] reached through two find_key_with_prefix tests
Descend(data, outer, inner) ==
    IF ~find_key_with_prefix(data, outer) THEN None
    ELSE IF ~IsRec(data) THEN Raise
    ELSE DescendInner(Item(data, outer), inner)

\* the list coercion of a value found by Descend (None and Raise pass through)
ListOf(x) == IF Raised(x) \/ x = None THEN x ELSE Lst(AsList(x))

\* some element of a sequence of results is Raise
AnyRaised(seq) == \E i \in 1..Len(seq) : Raised(seq[i])

\* concatenation of a sequence of sequences
RECURSIVE Concat(_)
Concat(seqs) == IF Len(seqs) = 0 THEN <<>> ELSE Head(seqs) \o Concat(Tail(seqs))

\* the lists appended by the iterations of a loop, as one list; Raise when an
\* iteration raised
Collect(each) ==
    IF AnyRaised(each) THEN Raise
    ELSE Lst(Concat([i \in 1..Len(each) |-> each[i].v]))

\* `for x in list: ...` where each[i] is the list of items the i-th iteration
\* appends; no iteration when the list was not found
ForEach(list, each) ==
    IF Raised(list) THEN Raise
    ELSE IF list = None THEN Lst(<<>>)
    ELSE Collect(each)

\* a Python str literal of one symbol
S(a) == Str(<<a>>)

\* the str "" (the default of most .get calls)
Empty == Str(<<>>)

(***************************************************************************)
(* Profile type identifiers (the fixed table the sub-extractors branch on)  *)
(***************************************************************************)
UnitTypeId == "c547-1836-d8a-ff4f"

RangedTypeId == "f77d-b953-8fa4-b762"

MeleeTypeId == "8a40-4aaa-c780-9046"

AbilityTypeId == "9cc3-6d83-4dd3-9b64"

\* the characteristic(s) of a profile: None, Raise, or the list of them
Characteristics(profile) ==
    ListOf(Descend(profile, "characteristics", "characteristic"))

\* the profile(s) of an entry: None, Raise, or the list of them
Profiles(entry) == ListOf(Descend(entry, "profiles", "profile"))

\* char.get(...) raises on a characteristic that is a bare str
SomeNotRec(chars) ==
    chars # None /\ \E i \in 1..Len(chars.v) : ~IsRec(chars.v[i])

\* the characteristics a loop iterates over
Items(chars) == IF chars = None THEN <<>> ELSE chars.v

(***************************************************************************)
(* extract_points                                                          *)
(***************************************************************************)
\* a variant of PointRows that does not test the cost's name
PointRowsAnyName(cost) ==
    IF ~IsRec(cost) THEN Raise
    ELSE Lst(<<Rec(<< <<"name", S("model")>>, <<"model", S("1")>>,
                      <<"cost", Get(cost, "value", S("0"))>> >>)>>)

\* the body of `for cost in cost_list`: the rows one cost appends
PointRows(cost) ==
    IF ~IsRec(cost) THEN Raise
    ELSE IF Get(cost, "name", None) = S("pts")
    THEN Lst(<<Rec(<< <<"name", S("model")>>, <<"model", S("1")>>,
                      <<"cost", Get(cost, "value", S("0"))>> >>)>>)
    ELSE Lst(<<>>)

\* `for cost in cost_list` (lines 430-436)
CostRows(cost_list) ==
    ForEach(cost_list, [i \in 1..Len(Items(cost_list)) |->
                          PointRows(Items(cost_list)[i])])

extract_points(selection_entry) ==
    CostRows(ListOf(Descend(selection_entry, "costs", "cost")))

(***************************************************************************)
(* extract_keywords                                                        *)
(***************************************************************************)
\* `keywords.append(link.get("name", ""))`, without the membership test
KeywordOrEmpty(link) ==
    IF ~IsRec(link) THEN Raise ELSE Lst(<<Get(link, "name", Empty)>>)

\* `if "name" in link: keywords.append(link["name"])`
KeywordOf(link) ==
    IF ~In("name", link) THEN Lst(<<>>)
    ELSE IF ~IsRec(link) THEN Raise
    ELSE Lst(<<Item(link, "name")>>)

\* `for link in links` (lines 404-410)
LinkKeywords(links) ==
    ForEach(links, [i \in 1..Len(Items(links)) |-> KeywordOf(Items(links)[i])])

extract_keywords(selection_entry) ==
    LinkKeywords(ListOf(Descend(selection_entry, "categoryLinks", "categoryLink")))

(***************************************************************************)
(* extract_abilities                                                       *)
(***************************************************************************)
\* the dict appended to abilities["other"]
OtherAbility(name, description, showDescription) ==
    Rec(<< <<"name", name>>, <<"description", description>>,
           <<"showAbility", Bool(TRUE)>>,
           <<"showDescription", Bool(showDescription)>> >>)

\* the abilities dict before any entry is added
EmptyAbilities ==
    << <<"core", Lst(<<>>)>>,
       <<"faction", Lst(<<S("Oath of Moment")>>)>>,
       <<"other", Lst(<<>>)>>,
       <<"special", Lst(<<>>)>>,
       <<"wargear", Lst(<<>>)>>,
       <<"primarch", Lst(<<>>)>>,
       <<"damaged", Rec(<< <<"description", Empty>>, <<"range", Empty>>,
                           <<"showDamagedAbility", Bool(FALSE)>>,
                           <<"showDescription", Bool(TRUE)>> >>)>>,
       <<"invul", Rec(<< <<"info", Empty>>, <<"showAtTop", Bool(TRUE)>>,
                         <<"showInfo", Bool(FALSE)>>,
                         <<"showInvulnerableSave", Bool(TRUE)>>,
                         <<"value", S("5+")>> >>)>> >>

\* fields[key].append(item)
AppendTo(fields, key, item) ==
    SetItem(fields, key, Lst(Append(Item(Rec(fields), key).v, item)))

\* a variant of Classify that does not consult the registry
ClassifyOther(fields, ability, rules) == AppendTo(fields, "other", ability)

\* `if name in self.shared_rules: core.append(name) else: other.append({...})`
Classify(fields, ability, rules) ==
    IF Item(ability, "name").v \in rules
    THEN AppendTo(fields, "core", Item(ability, "name"))
    ELSE AppendTo(fields, "other", ability)

\* the classification of a sequence of resolved abilities, in order
RECURSIVE ClassifyAll(_, _, _)
ClassifyAll(fields, resolved, rules) ==
    IF Len(resolved) = 0 THEN fields
    ELSE ClassifyAll(Classify(fields, Head(resolved), rules),
                     Tail(resolved), rules)

\* what one modifier appends to the rule name (lines 144-145)
ModifierSuffix(modifier) ==
    IF Get(modifier, "type", None) = S("append")
       /\ Get(modifier, "field", None) = S("name")
    THEN Get(modifier, "value", Empty).v
    ELSE <<>>

\* `for modifier in modifier_list` (lines 143-145)
AppendSuffixes(rule_name, modifier_list) ==
    IF \E i \in 1..Len(modifier_list) : ~IsRec(modifier_list[i]) THEN Raise
    ELSE Str(rule_name.v \o
             Concat([i \in 1..Len(modifier_list) |->
                       ModifierSuffix(modifier_list[i])]))

\* the modifiers branch (lines 137-145)
ApplyModifiers(rule_name, modifiers) ==
    IF ~find_key_with_prefix(modifiers, "modifier") THEN rule_name
    ELSE IF ~IsRec(modifiers) THEN Raise
    ELSE AppendSuffixes(rule_name, AsList(Item(modifiers, "modifier")))

\* a variant of RuleName that keeps the base name
BaseRuleName(info_link) ==
    IF ~IsRec(info_link) THEN Raise ELSE Get(info_link, "name", Empty)

\* the rule name of one infoLink after its modifiers (lines 133-145)
RuleName(info_link) ==
    IF ~IsRec(info_link) THEN Raise
    ELSE IF "modifiers" \notin Keys(info_link)
    THEN Get(info_link, "name", Empty)
    ELSE ApplyModifiers(Get(info_link, "name", Empty),
                        Item(info_link, "modifiers"))

\* the ability a resolved rule name stands for (lines 148-157)
NamedAbility(rule_name) ==
    IF Raised(rule_name) THEN Raise
    ELSE Lst(<<OtherAbility(rule_name, Empty, FALSE)>>)

LinkAbility(info_link) == NamedAbility(RuleName(info_link))

\* `for info_link in info_link_list` (lines 132-157)
InfoLinkAbilities(info_link_list) ==
    ForEach(info_link_list,
            [i \in 1..Len(Items(info_link_list)) |->
                LinkAbility(Items(info_link_list)[i])])

\* the abilities the infoLinks resolve to, in order (lines 123-157)
LinkAbilities(selection_entry) ==
    InfoLinkAbilities(ListOf(Descend(selection_entry, "infoLinks", "infoLink")))

\* the abilities one characteristic of an ability profile resolves to
DescriptionAbility(profile, c) ==
    IF ~IsRec(c) THEN Raise
    ELSE IF Get(c, "name", None) = S("Description")
    THEN Lst(<<OtherAbility(Get(profile, "name", Empty),
                            Get(c, "_text", Empty), TRUE)>>)
    ELSE Lst(<<>>)

\* `for c in char` (lines 183-214)
DescriptionAbilities(profile, char) ==
    ForEach(char, [i \in 1..Len(Items(char)) |->
                     DescriptionAbility(profile, Items(char)[i])])

\* a variant of ProfileAbilities that does not test the profile's typeId
ProfileAbilitiesAnyType(profile) ==
    IF ~IsRec(profile) THEN Raise
    ELSE DescriptionAbilities(profile, Characteristics(profile))

\* the abilities one profile resolves to (lines 171-214)
ProfileAbilities(profile) ==
    IF ~IsRec(profile) THEN Raise
    ELSE IF Get(profile, "typeId", None) # S(AbilityTypeId) THEN Lst(<<>>)
    ELSE DescriptionAbilities(profile, Characteristics(profile))

\* `for profile in profile_list` (lines 171-214)
ProfileListAbilities(profile_list) ==
    ForEach(profile_list,
            [i \in 1..Len(Items(profile_list)) |->
                ProfileAbilities(Items(profile_list)[i])])

\* the abilities the profiles resolve to, in order (lines 159-214)
ProfilesAbilities(selection_entry) ==
    ProfileListAbilities(Profiles(selection_entry))

\* the abilities of the profiles are classified before those of the infoLinks
ClassifyProfilesFirst(fromLinks, fromProfiles, rules) ==
    IF Raised(fromLinks) \/ Raised(fromProfiles) THEN Raise
    ELSE Rec(ClassifyAll(EmptyAbilities, fromProfiles.v \o fromLinks.v, rules))

\* the abilities dict built from the resolved abilities
ClassifyResolved(fromLinks, fromProfiles, rules) ==
    IF Raised(fromLinks) \/ Raised(fromProfiles) THEN Raise
    ELSE Rec(ClassifyAll(EmptyAbilities, fromLinks.v \o fromProfiles.v, rules))

extract_abilities(selection_entry, rules) ==
    ClassifyResolved(LinkAbilities(selection_entry),
                     ProfilesAbilities(selection_entry), rules)

(***************************************************************************)
(* extract_stats                                                           *)
(***************************************************************************)
\* the stat key a characteristic name fills, "" for any other name
StatKey(name) ==
    CASE name = S("M")  -> "m"
      [] name = S("T")  -> "t"
      [] name = S("SV") -> "sv"
      [] name = S("W")  -> "w"
      [] name = S("LD") -> "ld"
      [] name = S("OC") -> "oc"
      [] OTHER          -> ""

SetKey(fields, key, char) ==
    IF key = "" THEN fields ELSE SetItem(fields, key, Get(char, "_text", Empty))

\* the if/elif chain over one characteristic (lines 256-267)
SetStat(stat, char) == SetKey(stat, StatKey(Get(char, "name", None)), char)

RECURSIVE SetStats(_, _)
SetStats(stat, chars) ==
    IF Len(chars) = 0 THEN stat
    ELSE SetStats(SetStat(stat, Head(chars)), Tail(chars))

\* the stat dict of lines 236-241
NewStat(profile) ==
    << <<"active", Bool(TRUE)>>,
       <<"name", Get(profile, "name", Empty)>>,
       <<"showName", Bool(FALSE)>>,
       <<"showDamagedMarker", Bool(FALSE)>> >>

\* a row is appended whatever the name
StatRowOfAnyName(profile, chars) ==
    IF Raised(chars) \/ SomeNotRec(chars) THEN Raise
    ELSE Lst(<<Rec(SetStats(NewStat(profile), Items(chars)))>>)

\* lines 243-283 for a unit profile with characteristics `chars`
StatRow(profile, chars) ==
    IF Raised(chars) \/ SomeNotRec(chars) THEN Raise
    ELSE IF Len(Get(profile, "name", Empty).v) = 0 THEN Lst(<<>>)
    ELSE Lst(<<Rec(SetStats(NewStat(profile), Items(chars)))>>)

\* the rows one profile appends to stats (lines 235-283)
StatRows(profile) ==
    IF ~IsRec(profile) THEN Raise
    ELSE IF Get(profile, "typeId", None) # S(UnitTypeId) THEN Lst(<<>>)
    ELSE StatRow(profile, Characteristics(profile))

\* `for profile in profile_list` (lines 234-283)
ProfileListStats(profile_list) ==
    ForEach(profile_list,
            [i \in 1..Len(Items(profile_list)) |->
                StatRows(Items(profile_list)[i])])

extract_stats(selection_entry) == ProfileListStats(Profiles(selection_entry))

(***************************************************************************)
(* extract_weapons                                                         *)
(***************************************************************************)
RECURSIVE Split(_)

SplitAt(text, i) ==
    <<SubSeq(text, 1, i - 1)>> \o Split(SubSeq(text, i + 1, Len(text)))

\* text.split(","): the pieces between the "," symbols
Split(text) ==
    IF \E i \in 1..Len(text) : text[i] = ","
    THEN SplitAt(text, CHOOSE j \in 1..Len(text) :
                          text[j] = "," /\ \A k \in 1..(j - 1) : text[k] # ",")
    ELSE <<text>>

\* [k.strip() for k in pieces]
StripAll(pieces) == Lst([i \in 1..Len(pieces) |-> Str(strip(pieces[i]))])

\* the weapon_profile key a characteristic name fills, "" for any other name
WeaponKey(name) ==
    CASE name = S("Range")    -> "range"
      [] name = S("A")        -> "attacks"
      [] name = S("BS")       -> "skill"
      [] name = S("S")        -> "strength"
      [] name = S("AP")       -> "ap"
      [] name = S("D")        -> "damage"
      [] name = S("Keywords") -> "keywords"
      [] OTHER                -> ""

\* lines 361-364: the keywords are set only when the text is not empty
SetKeywords(weapon_profile, keywords_text) ==
    IF Len(keywords_text.v) = 0 THEN weapon_profile
    ELSE SetItem(weapon_profile, "keywords", StripAll(Split(keywords_text.v)))

SetWeaponKey(weapon_profile, key, char) ==
    IF key = "keywords"
    THEN SetKeywords(weapon_profile, Get(char, "_text", Empty))
    ELSE SetKey(weapon_profile, key, char)

\* the if/elif chain over one characteristic (lines 349-364)
SetWeaponField(weapon_profile, char) ==
    SetWeaponKey(weapon_profile, WeaponKey(Get(char, "name", None)), char)

RECURSIVE SetWeaponFields(_, _)
SetWeaponFields(weapon_profile, chars) ==
    IF Len(chars) = 0 THEN weapon_profile
    ELSE SetWeaponFields(SetWeaponField(weapon_profile, Head(chars)), Tail(chars))

\* the profile type identifier extract_weapons looks for (lines 321-322)
WeaponTypeId(weapon_type) ==
    CASE weapon_type = "ranged" -> S(RangedTypeId)
      [] weapon_type = "melee"  -> S(MeleeTypeId)
      [] OTHER                  -> Raise

\* lines 324-383 for a profile of the requested kind
WeaponProfile(profile, chars) ==
    IF Raised(chars) \/ SomeNotRec(chars) THEN Raise
    ELSE Lst(<<Rec(SetWeaponFields(
                      << <<"active", Bool(TRUE)>>,
                         <<"name", Get(profile, "name", Empty)>> >>,
                      Items(chars)))>>)

\* a profile of either weapon kind is taken, whatever kind is requested
WeaponProfilesOfEitherKind(profile, weapon_type) ==
    IF ~IsRec(profile) THEN Raise
    ELSE IF Get(profile, "typeId", None) \notin {S(RangedTypeId), S(MeleeTypeId)}
    THEN Lst(<<>>)
    ELSE WeaponProfile(profile, Characteristics(profile))

\* the weapon_profile one profile yields, if it is of the requested kind
\* (lines 319-383)
WeaponProfiles(profile, weapon_type) ==
    IF ~IsRec(profile) THEN Raise
    ELSE IF Get(profile, "typeId", None) # WeaponTypeId(weapon_type) THEN Lst(<<>>)
    ELSE WeaponProfile(profile, Characteristics(profile))

\* `for profile in profile_list` (lines 319-383)
ProfileListWeapons(profile_list, weapon_type) ==
    ForEach(profile_list,
            [i \in 1..Len(Items(profile_list)) |->
                WeaponProfiles(Items(profile_list)[i], weapon_type)])

\* the weapon profiles of the entries nested in a nested selection entry
DeeperWeaponProfiles(entries_list, weapon_type) ==
    ForEach(entries_list,
            [i \in 1..Len(Items(entries_list)) |->
                ProfileListWeapons(Profiles(Items(entries_list)[i]), weapon_type)])

\* a search that goes on below the nested selection entry
EntryAndNestedWeaponProfiles(entry, weapon_type) ==
    Collect(<<ProfileListWeapons(Profiles(entry), weapon_type),
              DeeperWeaponProfiles(
                  ListOf(Descend(entry, "selectionEntries", "selectionEntry")),
                  weapon_type)>>)

\* the weapon profiles of one nested selection entry, in order (lines 306-383)
EntryWeaponProfiles(entry, weapon_type) ==
    ProfileListWeapons(Profiles(entry), weapon_type)

\* `for entry in entries_list` (lines 306-383)
EntriesWeaponProfiles(entries_list, weapon_type) ==
    ForEach(entries_list,
            [i \in 1..Len(Items(entries_list)) |->
                EntryWeaponProfiles(Items(entries_list)[i], weapon_type)])

\* weapon_groups[weapon_name]["profiles"].append(weapon_profile), creating the
\* group first when the name is new (lines 325-329, 383); weapon_groups is a
\* sequence of <<weapon_name, group>> in insertion order
AddToNamedGroup(weapon_groups, weapon_name, weapon_profile) ==
    IF \E i \in 1..Len(weapon_groups) : weapon_groups[i][1] = weapon_name
    THEN [i \in 1..Len(weapon_groups) |->
            IF weapon_groups[i][1] = weapon_name
            THEN <<weapon_name,
                   Rec(AppendTo(weapon_groups[i][2].v, "profiles", weapon_profile))>>
            ELSE weapon_groups[i]]
    ELSE Append(weapon_groups,
                <<weapon_name,
                  Rec(<< <<"active", Bool(TRUE)>>,
                         <<"profiles", Lst(<<weapon_profile>>)>> >>)>>)

\* a variant of AddToGroup that opens a group for every profile
AddToNewGroup(weapon_groups, weapon_profile) ==
    Append(weapon_groups,
           <<Item(weapon_profile, "name"),
             Rec(<< <<"active", Bool(TRUE)>>,
                    <<"profiles", Lst(<<weapon_profile>>)>> >>)>>)

AddToGroup(weapon_groups, weapon_profile) ==
    AddToNamedGroup(weapon_groups, Item(weapon_profile, "name"), weapon_profile)

RECURSIVE GroupAll(_, _)
GroupAll(weapon_groups, weapon_profiles) ==
    IF Len(weapon_profiles) = 0 THEN weapon_groups
    ELSE GroupAll(AddToGroup(weapon_groups, Head(weapon_profiles)),
                  Tail(weapon_profiles))

\* list(weapon_groups.values()) (line 385)
GroupValues(weapon_groups) ==
    Lst([i \in 1..Len(weapon_groups) |-> weapon_groups[i][2]])

\* the groups of the weapon profiles found, Raise when the search raised
Grouped(weapon_profiles) ==
    IF Raised(weapon_profiles) THEN Raise
    ELSE GroupValues(GroupAll(<<>>, weapon_profiles.v))

extract_weapons(selection_entry, weapon_type) ==
    Grouped(EntriesWeaponProfiles(
                ListOf(Descend(selection_entry, "selectionEntries",
                               "selectionEntry")),
                weapon_type))

(***************************************************************************)
(* extract_datasheet, extract_enhancements                                 *)
(***************************************************************************)
\* a datasheet that leaves out the sub-extractor results that are empty lists
DatasheetOfPresentParts(name, id, parts) ==
    IF \E i \in 1..Len(parts) : Raised(parts[i][2]) THEN Raise
    ELSE Rec(<< <<"id", S(id)>>,
                <<"name", name>>,
                <<"cardType", S("DataCard")>>,
                <<"factions", Lst(<<S("Dark Angels")>>)>>,
                <<"faction_id", S("CHDA")>>,
                <<"source", S("40k-10e")>> >>
             \o SelectSeq(parts, LAMBDA part : part[2] # Lst(<<>>)) \o
             << <<"composition", Lst(<<Str(<<"1", " ">> \o name.v)>>)>>,
                <<"fluff", Empty>>,
                <<"leader", Empty>>,
                <<"loadout", Empty>>,
                <<"transport", Empty>>,
                <<"wargear", Lst(<<>>)>> >>)

\* the datasheet dict of lines 445-464, given the sub-extractor results
Datasheet(name, id, parts) ==
    IF \E i \in 1..Len(parts) : Raised(parts[i][2]) THEN Raise
    ELSE Rec(<< <<"id", S(id)>>,
                <<"name", name>>,
                <<"cardType", S("DataCard")>>,
                <<"factions", Lst(<<S("Dark Angels")>>)>>,
                <<"faction_id", S("CHDA")>>,
                <<"source", S("40k-10e")>> >>
             \o parts \o
             << <<"composition", Lst(<<Str(<<"1", " ">> \o name.v)>>)>>,
                <<"fluff", Empty>>,
                <<"leader", Empty>>,
                <<"loadout", Empty>>,
                <<"transport", Empty>>,
                <<"wargear", Lst(<<>>)>> >>)

extract_datasheet(selection_entry, rules, id) ==
    IF ~IsRec(selection_entry) THEN Raise
    ELSE IF Get(selection_entry, "type", None) # S("model") THEN None
    ELSE Datasheet(Get(selection_entry, "name", Empty), id,
            << <<"abilities", extract_abilities(selection_entry, rules)>>,
               <<"stats", extract_stats(selection_entry)>>,
               <<"rangedWeapons", extract_weapons(selection_entry, "ranged")>>,
               <<"meleeWeapons", extract_weapons(selection_entry, "melee")>>,
               <<"keywords", extract_keywords(selection_entry)>>,
               <<"points", extract_points(selection_entry)>> >>)

\* the value one characteristic assigns to enhancement["description"]
DescriptionOf(c) ==
    IF ~IsRec(c) THEN Raise
    ELSE IF Get(c, "name", None) = S("Description")
    THEN Lst(<<Get(c, "_text", Empty)>>)
    ELSE Lst(<<>>)

\* `for c in char` (lines 496-502)
CharDescriptions(char) ==
    ForEach(char, [i \in 1..Len(Items(char)) |-> DescriptionOf(Items(char)[i])])

\* the values assigned to enhancement["description"] by one profile, in order
\* (lines 493-502)
ProfileDescriptions(profile) ==
    IF ~IsRec(profile) THEN Raise
    ELSE IF Get(profile, "typeId", None) # S(AbilityTypeId) THEN Lst(<<>>)
    ELSE IF ~("characteristics" \in Keys(profile)
              /\ In("characteristic", Item(profile, "characteristics")))
    THEN Lst(<<>>)
    ELSE CharDescriptions(ListOf(Subscript(Item(profile, "characteristics"),
                                           "characteristic")))

\* `for profile in profile_list` (lines 492-502)
ProfileListDescriptions(profile_list) ==
    ForEach(profile_list,
            [i \in 1..Len(Items(profile_list)) |->
                ProfileDescriptions(Items(profile_list)[i])])

\* the first of the values assigned is the one kept
FirstAssigned(assigned) ==
    IF Raised(assigned) THEN Raise
    ELSE IF Len(assigned.v) = 0 THEN Empty
    ELSE assigned.v[1]

\* the last of the values assigned, "" when there is none
LastAssigned(assigned) ==
    IF Raised(assigned) THEN Raise
    ELSE IF Len(assigned.v) = 0 THEN Empty
    ELSE assigned.v[Len(assigned.v)]

\* lines 489-502 for the value of selection_entry["profiles"]
DescriptionFrom(profiles) ==
    IF ~(IsRec(profiles) /\ "profile" \in Keys(profiles)) THEN Empty
    ELSE LastAssigned(ProfileListDescriptions(
                         Lst(AsList(Item(profiles, "profile")))))

\* the description of an enhancement (lines 486-502)
EnhancementDescription(selection_entry) ==
    IF "profiles" \notin Keys(selection_entry) THEN Empty
    ELSE DescriptionFrom(Item(selection_entry, "profiles"))

\* the enhancement dict of lines 473-484 with its description
Enhancement(selection_entry, id, description) ==
    IF Raised(description) THEN Raise
    ELSE Rec(<< <<"name", Get(selection_entry, "name", Empty)>>,
                <<"id", S(id)>>,
                <<"cost", S("0")>>,
                <<"keywords", Lst(<<S("Dark Angels")>>)>>,
                <<"excludes", Lst(<<>>)>>,
                <<"description", description>>,
                <<"faction_id", S("CHDA")>>,
                <<"source", S("40k-10e")>>,
                <<"cardType", S("enhancement")>>,
                <<"detachment", S("Wrath of the Rock")>> >>)

\* a variant of extract_enhancements that does not test the entry's type
ExtractAnyEnhancement(selection_entry, id) ==
    IF ~IsRec(selection_entry) THEN Raise
    ELSE Enhancement(selection_entry, id, EnhancementDescription(selection_entry))

extract_enhancements(selection_entry, id) ==
    IF ~IsRec(selection_entry) THEN Raise
    ELSE IF Get(selection_entry, "type", None) # S("upgrade") THEN None
    ELSE Enhancement(selection_entry, id, EnhancementDescription(selection_entry))

(***************************************************************************)
(* extract_faction_info, extract_rules, transform_data                     *)
(***************************************************************************)
\* the truth value of a Python value in `if x:` / `not x`
Truthy(x) ==
    CASE x.kind \in {"rec", "list", "str"} -> Len(x.v) > 0
      [] x.kind = "bool" -> x.v
      [] x.kind = "int"  -> x.v # 0
      [] OTHER           -> FALSE

\* the faction_info dict of lines 79-87
FactionInfo ==
    << <<"id", S("CHDA")>>,
       <<"name", S("Dark Angels")>>,
       <<"is_subfaction", Bool(TRUE)>>,
       <<"parent_id", S("SM")>>,
       <<"parent_keyword", S("Adeptus Astartes")>>,
       <<"link", S("https://game-datacards.eu")>>,
       <<"compatibleDataVersion", PyInt(640)>> >>

\* `if self.reference_data and key in self.reference_data:
\*      faction_info[key] = self.reference_data[key]`
Passthrough(faction_info, reference_data, key) ==
    IF Raised(faction_info) THEN Raise
    ELSE IF ~Truthy(reference_data) THEN faction_info
    ELSE IF InRaises(reference_data) THEN Raise
    ELSE IF ~In(key, reference_data) THEN faction_info
    ELSE IF ~IsRec(reference_data) THEN Raise
    ELSE Rec(SetItem(faction_info.v, key, Item(reference_data, key)))

extract_faction_info(reference_data) ==
    Passthrough(Passthrough(Rec(FactionInfo), reference_data, "colours"),
                reference_data, "allied_factions")

\* one army rule of extract_rules; the rule text is abbreviated to one symbol
ArmyRule(name, text) ==
    Rec(<< <<"name", S(name)>>,
           <<"rule", Lst(<<Rec(<< <<"order", PyInt(1)>>,
                                  <<"text", S(text)>>,
                                  <<"type", S("text")>> >>)>>)>> >>)

extract_rules ==
    Rec(<< <<"army",
             Lst(<<ArmyRule("Oath of Moment", "This ability is described in full"),
                   ArmyRule("The Deathwing", "gain the DEATHWING keyword"),
                   ArmyRule("The Ravenwing", "gain the RAVENWING keyword"),
                   ArmyRule("The Unforgiven", "second Faction keyword")>>)>> >>)

\* `xs.append(extract(entry))` without the test of the result
KeptAlways(card) == IF Raised(card) THEN Raise ELSE Lst(<<card>>)

\* `x = extract(entry); if x: xs.append(x)`
Kept(card) ==
    IF Raised(card) THEN Raise
    ELSE IF Truthy(card) THEN Lst(<<card>>)
    ELSE Lst(<<>>)

\* the datasheets appended by `for entry in entries` (lines 589-596, 604-610);
\* ids[i] is what uuid.uuid4() returns for the i-th entry
EntriesDatasheets(entries, rules, ids) ==
    ForEach(entries,
            [i \in 1..Len(Items(entries)) |->
                Kept(extract_datasheet(Items(entries)[i], rules, ids[i]))])

\* the enhancements appended by `for entry in entries` (lines 598-602, 612-616)
EntriesEnhancements(entries, ids) ==
    ForEach(entries,
            [i \in 1..Len(Items(entries)) |->
                Kept(extract_enhancements(Items(entries)[i], ids[i]))])

\* the entries transform_data walks: None, Raise, or the list of them
SharedEntries(source_data) ==
    ListOf(Descend(source_data, "sharedSelectionEntries", "selectionEntry"))

\* the result dict of lines 624-629
TransformResult(faction_info, datasheets, enhancements) ==
    IF Raised(faction_info) \/ Raised(datasheets) \/ Raised(enhancements)
    THEN Raise
    ELSE Rec(faction_info.v \o << <<"datasheets", datasheets>>,
                                  <<"enhancements", enhancements>>,
                                  <<"rules", extract_rules>> >>)

\* lines 567-632 for the entries found
Transformed(entries, reference_data, rules, ids) ==
    TransformResult(extract_faction_info(reference_data),
                    EntriesDatasheets(entries, rules, ids),
                    EntriesEnhancements(entries, ids))

\* transform_data, given what load_json_file returned for the two files
transform_data(source_data, reference_data, rules, ids) ==
    IF ~Truthy(source_data) THEN Rec(<<>>)
    ELSE Transformed(SharedEntries(source_data), reference_data, rules, ids)

(***************************************************************************)
(* load_json_file, load_shared_rules                                       *)
(*   a file is [status |-> "missing" | "malformed" | "ok", data |-> value] *)
(***************************************************************************)
\* load_json_file: the parsed value, or {} after any exception
load_json_file(file) == IF file.status = "ok" THEN file.data ELSE Rec(<<>>)

\* the built-in names assigned in the except branch (lines 58-66)
FallbackRules ==
    { <<n>> : n \in
      {"Leader", "Pistol", "Hazardous", "Devastating Wounds", "Assault",
       "Extra Attacks", "Twin-linked", "Anti-", "Sustained Hits", "Heavy",
       "Melta", "Feel No Pain", "Blast", "Precision", "Indirect Fire",
       "Lance", "Lethal Hits", "Ignores Cover", "Rapid Fire", "Torrent",
       "Scouts", "Infiltrators", "Deep Strike", "Deadly Demise", "Stealth",
       "Super-Heavy Walker", "Lone Operative", "Hover", "Fights First",
       "Psychic", "Firing Deck", "One Shot"} }

\* `if "name" in rule: self.shared_rules.add(rule["name"])` for one rule:
\* the names added, or Raise (a dict or list cannot be a set member)
RuleNames(rule) ==
    IF InRaises(rule) THEN Raise
    ELSE IF ~In("name", rule) THEN Lst(<<>>)
    ELSE IF ~IsRec(rule) THEN Raise
    ELSE IF ~IsStr(Item(rule, "name")) THEN Raise
    ELSE Lst(<<Item(rule, "name").v>>)

\* `for rule in rules` (lines 47-53)
RulesNames(rules) ==
    ForEach(rules, [i \in 1..Len(Items(rules)) |-> RuleNames(Items(rules)[i])])

\* lines 45-53 for the value of game_system_data["sharedRules"]
SharedRuleNames(shared) ==
    IF InRaises(shared) THEN Raise
    ELSE IF ~In("rule", shared) THEN Lst(<<>>)
    ELSE IF ~IsRec(shared) THEN Raise
    ELSE RulesNames(Lst(AsList(Item(shared, "rule"))))

\* the names the try block adds to self.shared_rules, or Raise (lines 42-53)
LoadedRules(game_system_data) ==
    IF InRaises(game_system_data) THEN Raise
    ELSE IF ~In("sharedRules", game_system_data) THEN Lst(<<>>)
    ELSE IF ~IsRec(game_system_data) THEN Raise
    ELSE SharedRuleNames(Item(game_system_data, "sharedRules"))

\* self.shared_rules after the try/except, from its value before
RulesAfter(rules, added) ==
    IF Raised(added) THEN FallbackRules
    ELSE rules \cup {added.v[i] : i \in 1..Len(added.v)}

load_shared_rules(file, rules) ==
    RulesAfter(rules, LoadedRules(load_json_file(file)))

(***************************************************************************)
(* The documents the model runs on.  Every repeated-child position holds   *)
(* every sequence of at most MaxSiblings elements of a small set of items. *)
(***************************************************************************)
Seqs(items, n) == UNION {[1..k -> items] : k \in 0..n}

\* an attribute name="value", the value of one symbol
Attr(name, value) == <<name, <<value>> >>

\* an element of the catalogue vocabulary
Cat(tag, attrib, children, text) ==
    Element(<<"catalogueSchema", tag>>, attrib, children, text)

\* a container element <tag> around `children`, and the degenerate forms of
\* it: empty, or holding only text (with and without the child's tag name
\* among its words)
Containers(tag, child, items) ==
    {Cat(tag, <<>>, cs, <<>>) : cs \in Seqs(items, MaxSiblings)}
    \cup {Cat(tag, <<>>, <<>>, <<"n/a">>),
          Cat(tag, <<>>, <<>>, <<"no", " ", child>>)}

\* a container that may also be absent: the sequence of children it adds
Optional(containers) == {<<>>} \cup {<<c>> : c \in containers}

\* ---- generic elements, for the normaliser ----
GenericLeaves ==
    { Element(<<"", "a">>, <<>>, <<>>, <<>>),
      Element(<<"", "a">>, <<>>, <<>>, <<" ", "t", " ">>),
      Element(<<"", "a">>, <<>>, <<>>, <<" ">>),
      Element(<<"", "a">>, <<Attr("a", "1")>>, <<>>, <<"t">>),
      Element(<<"gameSystemSchema", "a">>, <<>>, <<>>, <<>>),
      Element(<<"otherSchema", "a">>, <<>>, <<>>, <<>>),
      Element(<<"", "_text">>, <<>>, <<>>, <<>>),
      Element(<<"", "b">>, <<>>,
              <<Element(<<"", "a">>, <<>>, <<>>, <<"t">>),
                Element(<<"", "a">>, <<>>, <<>>, <<>>)>>, <<>>) }

GenericAttribs ==
    { <<>>, <<Attr("a", "1")>>, <<Attr("_text", "2")>>,
      <<Attr("a", "1"), Attr("_text", "2")>> }

GenericTexts == { <<>>, <<" ">>, <<" ", "t", " ">> }

GenericElements ==
    { Element(<<"", "root">>, at, cs, tx) :
        at \in GenericAttribs, cs \in Seqs(GenericLeaves, MaxSiblings),
        tx \in GenericTexts }

\* ---- characteristics ----
Characteristic(name, text) == Cat("characteristic", <<Attr("name", name)>>, <<>>, text)

CharacteristicItems ==
    { Characteristic("Description", <<"txt">>),
      Characteristic("Description", <<>>),
      Characteristic("M", <<"6">>),
      Characteristic("Range", <<"24">>),
      Characteristic("Keywords", <<"Assault", ",", " ", "Heavy">>),
      Cat("characteristic", <<>>, <<>>, <<"txt">>),
      Cat("characteristic", <<>>, <<>>, <<>>) }

CharacteristicsContainers ==
    Optional(Containers("characteristics", "characteristic", CharacteristicItems))

Chars(items) == <<Cat("characteristics", <<>>, items, <<>>)>>

\* ---- profiles ----
Profile(attrib, children) == Cat("profile", attrib, children, <<>>)

ProfileItems ==
    { Profile(<<Attr("typeId", AbilityTypeId), Attr("name", "Leader")>>,
              Chars(<<Characteristic("Description", <<"txt">>)>>)),
      Profile(<<Attr("typeId", AbilityTypeId), Attr("name", "Custom")>>,
              Chars(<<Characteristic("Description", <<"txt2">>),
                      Characteristic("Description", <<"txt3">>)>>)),
      Profile(<<Attr("typeId", AbilityTypeId)>>,
              Chars(<<Characteristic("Description", <<"txt">>)>>)),
      Profile(<<Attr("typeId", UnitTypeId), Attr("name", "Sergeant")>>,
              Chars(<<Characteristic("M", <<"6">>), Characteristic("T", <<"4">>)>>)),
      Profile(<<Attr("typeId", UnitTypeId)>>,
              Chars(<<Characteristic("M", <<"6">>)>>)),
      Profile(<<Attr("typeId", "ffff-0000"), Attr("name", "Custom")>>,
              Chars(<<Characteristic("Description", <<"txt">>)>>)),
      Profile(<<Attr("name", "Custom")>>,
              Chars(<<Characteristic("Description", <<"txt">>)>>)),
      Profile(<<>>, <<>>) }

ProfilesContainers == Optional(Containers("profiles", "profile", ProfileItems))

\* ---- infoLinks and their modifiers ----
Modifier(type, field, value) ==
    Cat("modifier", <<Attr("type", type), Attr("field", field)>> \o value, <<>>, <<>>)

ModifierItems ==
    { Modifier("append", "name", <<<<"value", <<" ", "D3">> >> >>),
      Modifier("append", "name", <<Attr("value", "+")>>),
      Modifier("append", "name", <<>>),
      Modifier("set", "name", <<Attr("value", "X")>>),
      Modifier("append", "description", <<Attr("value", "x")>>) }

ModifiersContainers == Optional(Containers("modifiers", "modifier", ModifierItems))

InfoLink(attrib, children) == Cat("infoLink", attrib, children, <<>>)

InfoLinkItems ==
    { InfoLink(<<Attr("name", "Leader")>>, <<>>),
      InfoLink(<<Attr("name", "Custom")>>, <<>>),
      InfoLink(<<>>, <<>>),
      InfoLink(<<Attr("name", "Deadly Demise")>>,
               <<Cat("modifiers", <<>>,
                     <<Modifier("append", "name", <<<<"value", <<" ", "D3">> >> >>)>>,
                     <<>>)>>),
      InfoLink(<<Attr("name", "Deadly Demise")>>,
               <<Cat("modifiers", <<>>,
                     <<Modifier("set", "name", <<Attr("value", "X")>>)>>, <<>>)>>) }

InfoLinksContainers == Optional(Containers("infoLinks", "infoLink", InfoLinkItems))

\* ---- costs, categoryLinks ----
CostItems ==
    { Cat("cost", <<Attr("name", "pts"), Attr("value", "100")>>, <<>>, <<>>),
      Cat("cost", <<Attr("name", "pts"), Attr("value", "55")>>, <<>>, <<>>),
      Cat("cost", <<Attr("name", "PL"), Attr("value", "5")>>, <<>>, <<>>),
      Cat("cost", <<Attr("name", "pts")>>, <<>>, <<>>),
      Cat("cost", <<Attr("value", "7")>>, <<>>, <<>>) }

CostsContainers == Optional(Containers("costs", "cost", CostItems))

CategoryLinkItems ==
    { Cat("categoryLink", <<Attr("name", "Infantry")>>, <<>>, <<>>),
      Cat("categoryLink", <<Attr("name", "Character")>>, <<>>, <<>>),
      Cat("categoryLink", <<Attr("primary", "true")>>, <<>>, <<>>),
      Cat("categoryLink", <<>>, <<>>, <<>>) }

CategoryLinksContainers ==
    Optional(Containers("categoryLinks", "categoryLink", CategoryLinkItems))

\* ---- weapons: profiles of the nested selection entries ----
Weapon(typeId, name, range) ==
    Profile(<<Attr("typeId", typeId)>> \o name,
            Chars(<<Characteristic("Range", <<range>>),
                    Characteristic("Keywords", <<"Assault", ",", " ", "Heavy">>)>>))

WeaponItems ==
    { Weapon(RangedTypeId, <<Attr("name", "Bolter")>>, "24"),
      Weapon(RangedTypeId, <<Attr("name", "Bolter")>>, "12"),
      Weapon(RangedTypeId, <<Attr("name", "Plasma")>>, "18"),
      Weapon(MeleeTypeId, <<Attr("name", "Bolter")>>, "Melee"),
      Weapon(RangedTypeId, <<>>, "6"),
      Weapon("ffff-0000", <<Attr("name", "Bolter")>>, "36"),
      Profile(<<Attr("name", "Bolter")>>,
              Chars(<<Characteristic("Range", <<"30">>)>>)) }

Nested(children) ==
    Cat("selectionEntry", <<Attr("type", "upgrade")>>, children, <<>>)

NestedItems ==
    { Nested(<<Cat("profiles", <<>>,
                   <<Weapon(RangedTypeId, <<Attr("name", "Bolter")>>, "24"),
                     Weapon(RangedTypeId, <<Attr("name", "Bolter")>>, "12")>>, <<>>)>>),
      Nested(<<Cat("profiles", <<>>,
                   <<Weapon(RangedTypeId, <<Attr("name", "Bolter")>>, "36")>>, <<>>)>>),
      Nested(<<Cat("profiles", <<>>,
                   <<Weapon(RangedTypeId, <<Attr("name", "Plasma")>>, "18"),
                     Weapon(MeleeTypeId, <<Attr("name", "Sword")>>, "Melee")>>, <<>>)>>),
      Nested(<<Cat("profiles", <<>>,
                   <<Weapon(MeleeTypeId, <<Attr("name", "Sword")>>, "M2")>>, <<>>)>>),
      Nested(<<>>),
      Nested(<<Cat("selectionEntries", <<>>,
                   <<Nested(<<Cat("profiles", <<>>,
                       <<Weapon(RangedTypeId, <<Attr("name", "Deep")>>, "48")>>,
                       <<>>)>>)>>, <<>>)>>) }

SelectionEntriesContainers ==
    Optional(Containers("selectionEntries", "selectionEntry", NestedItems))
    \cup { <<Cat("selectionEntries", <<>>, <<Nested(<<c>>)>>, <<>>)>> :
             c \in Containers("profiles", "profile", WeaponItems) }

\* ---- selection entries ----
Entry(type, children) ==
    Cat("selectionEntry", <<Attr("name", "Unit")>> \o type, children, <<>>)

ModelType == <<Attr("type", "model")>>

UpgradeType == <<Attr("type", "upgrade")>>

\* one profile with every characteristics container, as an ability, a unit and
\* (in a nested entry) a weapon profile
CharacteristicEntries ==
    { Entry(ty, <<Cat("profiles", <<>>,
                      <<Profile(<<Attr("typeId", id), Attr("name", "Custom")>>, cc)>>,
                      <<>>)>>) :
        ty \in {ModelType, UpgradeType}, id \in {AbilityTypeId, UnitTypeId},
        cc \in CharacteristicsContainers }
    \cup
    { Entry(ModelType,
            <<Cat("selectionEntries", <<>>,
               <<Nested(<<Cat("profiles", <<>>,
                    <<Profile(<<Attr("typeId", id), Attr("name", "Bolter")>>, cc)>>,
                    <<>>)>>)>>, <<>>)>>) :
        id \in {RangedTypeId, MeleeTypeId}, cc \in CharacteristicsContainers }
    \cup
    { Entry(ModelType,
            <<Cat("profiles", <<>>,
                  <<Profile(<<Attr("typeId", UnitTypeId), Attr("name", "Captain")>>,
                            Chars(<<Characteristic("M", <<"6">>),
                                    Characteristic("T", <<"4">>),
                                    Characteristic("SV", <<"3">>),
                                    Characteristic("W", <<"5">>),
                                    Characteristic("LD", <<"6">>),
                                    Characteristic("OC", <<"1">>)>>)),
                    Profile(<<Attr("typeId", UnitTypeId), <<"name", <<>> >> >>,
                            Chars(<<Characteristic("W", <<"5">>)>>)),
                    Profile(<<Attr("typeId", UnitTypeId), Attr("name", "Sergeant")>>,
                            Chars(<<Characteristic("OC", <<"1">>)>>))>>,
                  <<>>)>>) }

ProfileEntries ==
    { Entry(ty, pc_) : ty \in {ModelType, UpgradeType}, pc_ \in ProfilesContainers }

InfoLinkEntries ==
    { Entry(ModelType, il \o pr) :
        il \in InfoLinksContainers,
        pr \in { <<>>,
                 <<Cat("profiles", <<>>,
                     <<Profile(<<Attr("typeId", AbilityTypeId), Attr("name", "Leader")>>,
                               Chars(<<Characteristic("Description", <<"txt">>)>>)),
                       Profile(<<Attr("typeId", AbilityTypeId), Attr("name", "Custom")>>,
                               Chars(<<Characteristic("Description", <<"txt2">>)>>))>>,
                     <<>>)>> } }
    \cup
    { Entry(ModelType,
            <<Cat("infoLinks", <<>>,
                  <<InfoLink(<<Attr("name", "Deadly Demise")>>, mc)>>, <<>>)>>) :
        mc \in ModifiersContainers }

CostEntries ==
    { Entry(ModelType, cc \o cl) :
        cc \in CostsContainers,
        cl \in { <<>>, <<Cat("categoryLinks", <<>>,
                           <<Cat("categoryLink", <<Attr("name", "Infantry")>>, <<>>, <<>>)>>,
                           <<>>)>> } }
    \cup { Entry(ModelType, cl) : cl \in CategoryLinksContainers }

WeaponEntries == { Entry(ModelType, se) : se \in SelectionEntriesContainers }

\* a unit entry with weapon profiles of its own, beside those of its nested
\* entries
OwnWeaponEntries ==
    { Entry(ModelType,
            <<Cat("profiles", <<>>,
                  <<Weapon(RangedTypeId, <<Attr("name", "Own")>>, "99"),
                    Weapon(MeleeTypeId, <<Attr("name", "Own Sword")>>, "Melee")>>,
                  <<>>)>> \o se) :
        se \in Optional(Containers("selectionEntries", "selectionEntry",
                                   NestedItems)) }

TypeEntries ==
    { Cat("selectionEntry", at \o ty, ch, <<>>) :
        at \in { <<>>, <<Attr("name", "Intercessor Squad")>> },
        ty \in { <<>>, ModelType, UpgradeType, <<Attr("type", "unit")>> },
        ch \in { <<>>,
                 <<Cat("costs", <<>>,
                       <<Cat("cost", <<Attr("name", "pts"), Attr("value", "100")>>,
                             <<>>, <<>>)>>, <<>>)>> } }
    \cup { Cat("selectionEntry", <<>>, <<>>, <<"txt">>) }

\* the entries whose outputs depend on the registry
AbilityEntries == ProfileEntries \cup InfoLinkEntries

OtherEntries ==
    CharacteristicEntries \cup CostEntries \cup WeaponEntries
    \cup OwnWeaponEntries \cup TypeEntries

\* ---- the companion game-system document ----
Rule(name) == Rec(<< <<"id", S("r")>>, <<"name", Str(name)>> >>)

GameSystem(rule) == Rec(<< <<"name", S("Warhammer 40,000")>>,
                           <<"sharedRules", Rec(<< <<"rule", rule>> >>)>> >>)

GameSystemFiles ==
    { [status |-> "missing", data |-> None],
      [status |-> "malformed", data |-> None],
      [status |-> "ok", data |-> Rec(<< <<"name", S("Warhammer 40,000")>> >>)],
      [status |-> "ok", data |-> GameSystem(Rule(<<"Leader">>))],
      [status |-> "ok",
       data |-> GameSystem(Lst(<<Rule(<<"Leader">>), Rule(<<"Deadly Demise">>)>>))],
      [status |-> "ok",
       data |-> GameSystem(Lst(<<Rule(<<"Deadly Demise", " ", "D3">>),
                                 Rule(<<"Custom">>)>>))],
      [status |-> "ok",
       data |-> GameSystem(Lst(<<Rule(<<"Leader">>), S("name")>>))],
      [status |-> "ok", data |-> PyInt(0)] }

\* ---- catalogue documents: the source of transform_data ----
SharedEntryItems ==
    { Cat("selectionEntry",
          <<Attr("name", "Intercessor Squad"), Attr("type", "model")>>,
          <<Cat("costs", <<>>,
                <<Cat("cost", <<Attr("name", "pts"), Attr("value", "100")>>,
                      <<>>, <<>>)>>, <<>>)>>, <<>>),
      Cat("selectionEntry",
          <<Attr("name", "Captain"), Attr("type", "model")>>,
          <<Cat("selectionEntries", <<>>,
                <<Cat("selectionEntry",
                      <<Attr("name", "Nested"), Attr("type", "model")>>,
                      <<>>, <<>>),
                  Cat("selectionEntry",
                      <<Attr("name", "Relic Blade"), Attr("type", "upgrade")>>,
                      <<>>, <<>>)>>, <<>>)>>, <<>>),
      Cat("selectionEntry",
          <<Attr("name", "Relic"), Attr("type", "upgrade")>>,
          <<Cat("profiles", <<>>,
                <<Profile(<<Attr("typeId", AbilityTypeId), Attr("name", "Relic")>>,
                          Chars(<<Characteristic("Description", <<"txt">>)>>))>>,
                <<>>)>>, <<>>),
      Cat("selectionEntry",
          <<Attr("name", "Squad"), Attr("type", "unit")>>, <<>>, <<>>),
      Cat("selectionEntry", <<Attr("name", "Untyped")>>, <<>>, <<>>),
      Cat("selectionEntry", <<>>, <<>>, <<"txt">>) }

Catalogue(children) ==
    Cat("catalogue", <<Attr("name", "Dark Angels")>>, children, <<>>)

CatalogueElements ==
    { Catalogue(se) :
        se \in Optional(Containers("sharedSelectionEntries", "selectionEntry",
                                   SharedEntryItems)) }

\* ---- the reference document ----
Colours == Rec(<< <<"banner", S("#013a17")>>, <<"header", S("#01150a")>> >>)

AlliedFactions == Lst(<<S("AoI"), S("QI")>>)

ReferenceFiles ==
    { [status |-> "missing", data |-> None],
      [status |-> "malformed", data |-> None],
      [status |-> "ok", data |-> Rec(<<>>)],
      [status |-> "ok", data |-> Rec(<< <<"colours", Colours>> >>)],
      [status |-> "ok",
       data |-> Rec(<< <<"id", S("CHDA")>>, <<"colours", Colours>>,
                       <<"allied_factions", AlliedFactions>> >>)],
      [status |-> "ok", data |-> Lst(<<S("colours")>>)] }

\* the source path given on the command line: a loadable file, no file, or a
\* file that is not JSON
SourceStatuses == {"ok", "missing", "malformed"}

\* no file at the output path
Absent == [kind |-> "absent", v |-> <<>>]

\* the content of an output file that existed before the run
Old == Str(<<"previous", " ", "output">>)

\* a file whose write was interrupted
Partial == [kind |-> "partial", v |-> <<>>]

\* ---- the source directory of the batch conversion ----
File(name, ext, status, writable, root) ==
    [name |-> name, ext |-> ext, status |-> status, writable |-> writable,
     root |-> root]

EmptyRoot == Element(<<"catalogueSchema", "catalogue">>, <<>>, <<>>, <<>>)

NamedRoot(tag, name) ==
    Element(<<tag, "catalogue">>, <<Attr("name", name)>>, <<>>, <<>>)

\* status: "ok" parses, "unreadable" cannot be opened or decoded, "malformed"
\* is not well-formed XML; writable: the output file can be written
CatFiles ==
    { File("a", "cat", "ok", TRUE, NamedRoot("catalogueSchema", "A")),
      File("b", "cat", "malformed", TRUE, EmptyRoot),
      File("c", "cat", "unreadable", TRUE, EmptyRoot),
      File("e", "cat", "ok", FALSE, EmptyRoot),
      File("a", "gst", "ok", TRUE, NamedRoot("gameSystemSchema", "G")),
      File("d", "gst", "malformed", TRUE, EmptyRoot),
      File("f", "gst", "ok", TRUE, EmptyRoot) }

\* file_path.stem of the files
Stems == {file.name : file \in CatFiles}

\* the identifiers uuid.uuid4() may return
UUIDs == {"uuid-1", "uuid-2"}

(***************************************************************************)
(* The state machine of the transformer: one run checks the paths of the   *)
(* command line, loads the registry, normalises one source element, and     *)
(* then either calls one extractor operation on the normalised value or     *)
(* transforms it and saves the result.                                      *)
(***************************************************************************)
NotRun == [kind |-> "notrun", v |-> <<>>]

\* the batch conversion is not running
NoBatch ==
    /\ cat_dir = {}
    /\ extension = "cat"
    /\ processed = {}
    /\ converted = {}
    /\ output_dir = [stem \in Stems |-> Absent]

\* no extractor operation has run
NothingExtracted ==
    /\ result = NotRun
    /\ abilities = NotRun
    /\ stats = NotRun
    /\ rangedWeapons = NotRun
    /\ meleeWeapons = NotRun
    /\ keywords = NotRun
    /\ points = NotRun
    /\ datasheet = NotRun
    /\ enhancement = NotRun
    /\ transformed = NotRun
    /\ exit_status = NotRun
    /\ printed = ""

Init ==
    /\ pc = "start"
    /\ \/ /\ source \in AbilityEntries
          /\ game_system_file \in GameSystemFiles
          /\ source_status = "ok"
          /\ reference_file = [status |-> "ok", data |-> Rec(<<>>)]
          /\ output_file = Absent
       \/ /\ source \in OtherEntries \cup GenericElements
          /\ game_system_file \in {[status |-> "missing", data |-> None]}
          /\ source_status = "ok"
          /\ reference_file = [status |-> "ok", data |-> Rec(<<>>)]
          /\ output_file = Absent
       \/ /\ source \in CatalogueElements
          /\ game_system_file \in {[status |-> "missing", data |-> None]}
          /\ source_status \in SourceStatuses
          /\ reference_file \in ReferenceFiles
          /\ output_file \in {Absent, Old}
    /\ shared_rules = {}
    /\ NothingExtracted
    /\ NoBatch

\* Path(args.source).exists() and Path(args.reference).exists()
PathsExist == source_status # "missing" /\ reference_file.status # "missing"

\* main, lines 659-666: a missing path is reported and main returns
MainRefuses ==
    /\ pc = "start"
    /\ ~PathsExist
    /\ printed' = IF source_status = "missing"
                  THEN "Le fichier source n'existe pas"
                  ELSE "Le fichier de reference n'existe pas"
    /\ exit_status' = PyInt(0)
    /\ pc' = "exited"
    /\ UNCHANGED <<source, game_system_file, shared_rules, result, abilities,
                   stats, rangedWeapons, meleeWeapons, keywords, points,
                   datasheet, enhancement, source_status, reference_file,
                   transformed, output_file, batch_vars>>

LoadSharedRules ==
    /\ pc = "start"
    /\ PathsExist
    /\ shared_rules' = load_shared_rules(game_system_file, shared_rules)
    /\ pc' = "loaded"
    /\ UNCHANGED <<source, game_system_file, result, abilities, stats,
                   rangedWeapons, meleeWeapons, keywords, points, datasheet,
                   enhancement, cli_vars, batch_vars>>

ParseXmlToDict ==
    /\ pc = "loaded"
    /\ result' = parse_xml_to_dict(source)
    /\ pc' = "parsed"
    /\ UNCHANGED <<source, game_system_file, shared_rules, abilities, stats,
                   rangedWeapons, meleeWeapons, keywords, points, datasheet,
                   enhancement, cli_vars, batch_vars>>

\* extract_abilities also records the names it classified in the registry
ExtractAbilitiesRegistering ==
    /\ pc = "parsed"
    /\ abilities' = extract_abilities(result, shared_rules)
    /\ shared_rules' = shared_rules \cup {<<"Leader">>, <<"Oath of Moment">>}
    /\ pc' = "done"
    /\ UNCHANGED <<source, game_system_file, result, stats, rangedWeapons,
                   meleeWeapons, keywords, points, datasheet, enhancement,
                   cli_vars, batch_vars>>

ExtractAbilities ==
    /\ pc = "parsed"
    /\ abilities' = extract_abilities(result, shared_rules)
    /\ pc' = "done"
    /\ UNCHANGED <<source, game_system_file, shared_rules, result, stats,
                   rangedWeapons, meleeWeapons, keywords, points, datasheet,
                   enhancement, cli_vars, batch_vars>>

ExtractStats ==
    /\ pc = "parsed"
    /\ stats' = extract_stats(result)
    /\ pc' = "done"
    /\ UNCHANGED <<source, game_system_file, shared_rules, result, abilities,
                   rangedWeapons, meleeWeapons, keywords, points, datasheet,
                   enhancement, cli_vars, batch_vars>>

ExtractWeapons ==
    /\ pc = "parsed"
    /\ rangedWeapons' = extract_weapons(result, "ranged")
    /\ meleeWeapons' = extract_weapons(result, "melee")
    /\ pc' = "done"
    /\ UNCHANGED <<source, game_system_file, shared_rules, result, abilities,
                   stats, keywords, points, datasheet, enhancement,
                   cli_vars, batch_vars>>

ExtractKeywords ==
    /\ pc = "parsed"
    /\ keywords' = extract_keywords(result)
    /\ pc' = "done"
    /\ UNCHANGED <<source, game_system_file, shared_rules, result, abilities,
                   stats, rangedWeapons, meleeWeapons, points, datasheet,
                   enhancement, cli_vars, batch_vars>>

ExtractPoints ==
    /\ pc = "parsed"
    /\ points' = extract_points(result)
    /\ pc' = "done"
    /\ UNCHANGED <<source, game_system_file, shared_rules, result, abilities,
                   stats, rangedWeapons, meleeWeapons, keywords, datasheet,
                   enhancement, cli_vars, batch_vars>>

ExtractDatasheet ==
    /\ pc = "parsed"
    /\ \E id \in UUIDs : datasheet' = extract_datasheet(result, shared_rules, id)
    /\ pc' = "done"
    /\ UNCHANGED <<source, game_system_file, shared_rules, result, abilities,
                   stats, rangedWeapons, meleeWeapons, keywords, points,
                   enhancement, cli_vars, batch_vars>>

ExtractEnhancements ==
    /\ pc = "parsed"
    /\ \E id \in UUIDs : enhancement' = extract_enhancements(result, id)
    /\ pc' = "done"
    /\ UNCHANGED <<source, game_system_file, shared_rules, result, abilities,
                   stats, rangedWeapons, meleeWeapons, keywords, points,
                   datasheet, cli_vars, batch_vars>>

\* the file at the source path: the normalised source, as convert_xml wrote it
SourceFile == [status |-> source_status, data |-> result]

\* the number of entries transform_data walks
EntryCount(source_data) == Len(Items(SharedEntries(source_data)))

\* run, line 642: transform_data; one uuid per entry walked
TransformData ==
    /\ pc = "parsed"
    /\ \E ids \in [1..EntryCount(load_json_file(SourceFile)) -> UUIDs] :
          transformed' = transform_data(load_json_file(SourceFile),
                                        load_json_file(reference_file),
                                        shared_rules, ids)
    /\ pc' = "transformed"
    /\ UNCHANGED <<source, game_system_file, shared_rules, result, abilities,
                   stats, rangedWeapons, meleeWeapons, keywords, points,
                   datasheet, enhancement, source_status, reference_file,
                   output_file, exit_status, printed, batch_vars>>

\* what save_json_file may leave at the path: the data, or after an exception
\* the file as it was or a partly written one
Saved(data, file) == {data, file, Partial}

\* run, lines 644-648, and the end of the process: an exception that left
\* transform_data ends the program with status 1 before anything is saved
SaveJsonFile ==
    /\ pc = "transformed"
    /\ IF Raised(transformed)
       THEN /\ output_file' = output_file
            /\ exit_status' = PyInt(1)
       ELSE /\ output_file' \in IF Truthy(transformed)
                               THEN Saved(transformed, output_file)
                               ELSE {output_file}
            /\ exit_status' = PyInt(0)
    /\ pc' = "done"
    /\ UNCHANGED <<source, game_system_file, shared_rules, result, abilities,
                   stats, rangedWeapons, meleeWeapons, keywords, points,
                   datasheet, enhancement, source_status, reference_file,
                   transformed, printed, batch_vars>>

Next ==
    \/ MainRefuses
    \/ LoadSharedRules
    \/ ParseXmlToDict
    \/ ExtractAbilities
    \/ ExtractStats
    \/ ExtractWeapons
    \/ ExtractKeywords
    \/ ExtractPoints
    \/ ExtractDatasheet
    \/ ExtractEnhancements
    \/ TransformData
    \/ SaveJsonFile

Spec == Init /\ [][Next]_vars

(***************************************************************************)
(* The state machine of the batch conversion, convert_xml.main: the files  *)
(* of the source directory are converted one at a time, the *.cat files     *)
(* first and then the *.gst files, each group in the order glob yields      *)
(* them.  It starts where main has found the source directory and created   *)
(* the destination directory.                                               *)
(***************************************************************************)
\* the transformer is not running
NoTransformer ==
    /\ source = EmptyRoot
    /\ game_system_file = [status |-> "missing", data |-> None]
    /\ shared_rules = {}
    /\ source_status = "ok"
    /\ reference_file = [status |-> "ok", data |-> Rec(<<>>)]
    /\ output_file = Absent
    /\ NothingExtracted

BatchInit ==
    /\ pc = "batch"
    /\ cat_dir \in SUBSET CatFiles
    /\ extension = "cat"
    /\ processed = {}
    /\ converted = {}
    /\ output_dir = [stem \in Stems |-> Absent]
    /\ NoTransformer

\* the except branch of read_cat_file
Caught(parsed) == IF Raised(parsed) THEN None ELSE parsed

read_cat_file(file) ==
    IF file.status = "ok" THEN Caught(parse_xml_to_dict(file.root)) ELSE None

\* what the guarded open and json.dump leave at the output path
Dumped(parsed, file, old) == IF file.writable THEN {parsed} ELSE {old, Partial}

\* the files glob(extension) has still to yield
Remaining == {file \in cat_dir \ processed : file.ext = extension}

\* the batch stops at the first document that fails
ConvertFileOrStop ==
    /\ pc = "batch"
    /\ \E file \in Remaining :
          /\ processed' = processed \cup {file}
          /\ IF read_cat_file(file) = None
             THEN /\ pc' = "converted"
                  /\ UNCHANGED <<converted, output_dir>>
             ELSE /\ \E content \in Dumped(read_cat_file(file), file,
                                           output_dir[file.name]) :
                        output_dir' = [output_dir EXCEPT ![file.name] = content]
                  /\ converted' = IF file.writable
                                  THEN converted \cup {file}
                                  ELSE converted
                  /\ pc' = pc
    /\ UNCHANGED <<cat_dir, extension, source, game_system_file, shared_rules,
                   result, abilities, stats, rangedWeapons, meleeWeapons,
                   keywords, points, datasheet, enhancement, cli_vars>>

\* one iteration of the inner loop, lines 87-105
ConvertFile ==
    /\ pc = "batch"
    /\ \E file \in Remaining :
          /\ processed' = processed \cup {file}
          /\ IF read_cat_file(file) = None
             THEN UNCHANGED <<converted, output_dir>>
             ELSE /\ \E content \in Dumped(read_cat_file(file), file,
                                           output_dir[file.name]) :
                        output_dir' = [output_dir EXCEPT ![file.name] = content]
                  /\ converted' = IF file.writable
                                  THEN converted \cup {file}
                                  ELSE converted
    /\ UNCHANGED <<pc, cat_dir, extension, source, game_system_file,
                   shared_rules, result, abilities, stats, rangedWeapons,
                   meleeWeapons, keywords, points, datasheet, enhancement,
                   cli_vars>>

\* the outer loop, line 86: "*.cat" is exhausted, "*.gst" follows
NextExtension ==
    /\ pc = "batch"
    /\ extension = "cat"
    /\ Remaining = {}
    /\ extension' = "gst"
    /\ UNCHANGED <<pc, cat_dir, processed, converted, output_dir, source,
                   game_system_file, shared_rules, result, abilities, stats,
                   rangedWeapons, meleeWeapons, keywords, points, datasheet,
                   enhancement, cli_vars>>

\* both loops are exhausted: main returns
BatchEnds ==
    /\ pc = "batch"
    /\ extension = "gst"
    /\ Remaining = {}
    /\ pc' = "converted"
    /\ UNCHANGED <<cat_dir, extension, processed, converted, output_dir,
                   source, game_system_file, shared_rules, result, abilities,
                   stats, rangedWeapons, meleeWeapons, keywords, points,
                   datasheet, enhancement, cli_vars>>

BatchNext ==
    \/ ConvertFile
    \/ NextExtension
    \/ BatchEnds

\* main is a sequential program: while a step is possible, one is taken
BatchSpec == BatchInit /\ [][BatchNext]_vars /\ WF_vars(BatchNext)

(***************************************************************************)
(* Reading the source element, for the properties below                    *)
(***************************************************************************)
HasAttr(element, name) ==
    \E i \in 1..Len(element.attrib) : element.attrib[i][1] = name

AttrOf(element, name) ==
    element.attrib[CHOOSE i \in 1..Len(element.attrib) :
                      element.attrib[i][1] = name][2]

\* the attribute's symbols, `default` when the attribute is absent
AttrOr(element, name, default) ==
    IF HasAttr(element, name) THEN AttrOf(element, name) ELSE default

\* the elements of a sequence that carry the tag, in document order
Tagged(elements, tag) ==
    SelectSeq(elements, LAMBDA c : clean_tag_name(c.tag) = tag)

\* the `inner` children of the `outer` children of an element, in document order
Within(element, outer, inner) ==
    Concat([i \in 1..Len(Tagged(element.children, outer)) |->
              Tagged(Tagged(element.children, outer)[i].children, inner)])

\* the source has been normalised
Parsed == pc \in {"parsed", "transformed", "done"}

\* an extractor ran and returned
Returned(x) == x # NotRun /\ ~Raised(x)

(***************************************************************************)
(* Properties of the normaliser                                            *)
(***************************************************************************)
\* C1: for every field f of the record parse_xml_to_dict returns, the value
\* under f is a list of length N >= 2 if and only if exactly N children of the
\* element have the namespace-stripped tag f, and it lists those children's
\* normal forms in document order; when exactly one child has tag f the value
\* is that child's normal form, not a list.
ListCoalescing ==
    (Parsed /\ IsRec(result)) =>
        \A f \in Keys(result) :
            /\ IsList(Item(result, f)) <=> Len(Tagged(source.children, f)) >= 2
            /\ IsList(Item(result, f)) =>
                 Item(result, f) =
                    Lst([i \in 1..Len(Tagged(source.children, f)) |->
                           parse_xml_to_dict(Tagged(source.children, f)[i])])
            /\ Len(Tagged(source.children, f)) = 1 =>
                 Item(result, f) = parse_xml_to_dict(Tagged(source.children, f)[1])

\* C2: a non-empty trimmed text of an element with an attribute or a child is
\* the "_text" field of the record; a non-empty trimmed text of an element
\* with neither is the whole result, a bare scalar; with no text or only
\* whitespace the result is a record that has no "_text" field.
TextHandling ==
    Parsed =>
        /\ (Len(strip(source.text)) > 0
            /\ Len(source.attrib) + Len(source.children) > 0) =>
               /\ IsRec(result)
               /\ "_text" \in Keys(result)
               /\ Item(result, "_text") = Str(strip(source.text))
        /\ (Len(strip(source.text)) > 0
            /\ Len(source.attrib) + Len(source.children) = 0) =>
               result = Str(strip(source.text))
        /\ Len(strip(source.text)) = 0 =>
               IsRec(result) /\ "_text" \notin Keys(result)

(***************************************************************************)
(* Properties of the extractor                                             *)
(***************************************************************************)
\* the entry's type attribute is the given word
TypeIs(element, type) ==
    HasAttr(element, "type") /\ AttrOf(element, "type") = <<type>>

\* C3: extract_enhancements yields no enhancement for an entry of type
\* "model", extract_datasheet yields no datasheet for an entry of type
\* "upgrade", neither yields anything for an entry of another type or of no
\* type; no entry yields both a datasheet and an enhancement.
TypeDiscrimination ==
    /\ (datasheet # NotRun /\ ~TypeIs(source, "model")) =>
           datasheet \in {None, Raise}
    /\ (enhancement # NotRun /\ ~TypeIs(source, "upgrade")) =>
           enhancement \in {None, Raise}
    /\ Parsed =>
           \A id1, id2 \in UUIDs :
               ~(IsRec(extract_datasheet(result, shared_rules, id1))
                 /\ IsRec(extract_enhancements(result, id2)))

\* a model entry was given to extract_enhancements, which returned nothing
TypeDiscriminationWitness ==
    /\ TypeIs(source, "model")
    /\ enhancement = None
    /\ IsRec(extract_datasheet(result, shared_rules, "uuid-1"))

\* the value a modifier element appends to the rule name
AppendedBy(modifier) ==
    IF AttrOr(modifier, "type", <<>>) = <<"append">>
       /\ AttrOr(modifier, "field", <<>>) = <<"name">>
    THEN AttrOr(modifier, "value", <<>>)
    ELSE <<>>

\* the base name of an infoLink element followed by what its modifiers append
SynthesizedName(info_link) ==
    AttrOr(info_link, "name", <<>>)
    \o Concat([i \in 1..Len(Within(info_link, "modifiers", "modifier")) |->
                 AppendedBy(Within(info_link, "modifiers", "modifier")[i])])

\* the names the infoLinks of an entry resolve to
LinkNames(entry) ==
    {SynthesizedName(Within(entry, "infoLinks", "infoLink")[i]) :
        i \in 1..Len(Within(entry, "infoLinks", "infoLink"))}

\* the profile is ability-typed and has a Description characteristic
Described(profile) ==
    /\ AttrOr(profile, "typeId", <<>>) = <<AbilityTypeId>>
    /\ \E i \in 1..Len(Within(profile, "characteristics", "characteristic")) :
          AttrOr(Within(profile, "characteristics", "characteristic")[i],
                 "name", <<>>) = <<"Description">>

\* the names the ability-typed profiles of an entry resolve to
ProfileNames(entry) ==
    {AttrOr(Within(entry, "profiles", "profile")[i], "name", <<>>) :
        i \in {j \in 1..Len(Within(entry, "profiles", "profile")) :
                  Described(Within(entry, "profiles", "profile")[j])}}

\* the names held by abilities.core
CoreNames(a) == {Item(a, "core").v[i].v : i \in 1..Len(Item(a, "core").v)}

\* the names of the records held by abilities.other
OtherNames(a) ==
    {Item(Item(a, "other").v[i], "name").v : i \in 1..Len(Item(a, "other").v)}

\* the name is classified by its membership of the registry
ClassifiedByRegistry(name) ==
    IF name \in shared_rules
    THEN name \in CoreNames(abilities) /\ name \notin OtherNames(abilities)
    ELSE name \in OtherNames(abilities) /\ name \notin CoreNames(abilities)

\* C4: every ability name extract_abilities resolves for an entry, from an
\* infoLink or from an ability-typed profile, is in abilities.core and in no
\* record of abilities.other when the registry holds it, and in a record of
\* abilities.other and not in abilities.core when the registry does not.
CoreClassification ==
    Returned(abilities) =>
        \A name \in LinkNames(source) \cup ProfileNames(source) :
            ClassifiedByRegistry(name)

\* an entry resolved a name of the registry and a name outside it
CoreClassificationWitness ==
    /\ Returned(abilities)
    /\ \E name \in LinkNames(source) : name \in shared_rules
    /\ \E name \in ProfileNames(source) : name \notin shared_rules
    /\ \E name \in ProfileNames(source) : name \in shared_rules

\* the infoLink elements of an entry that have modifiers
ModifiedLinks(entry) ==
    SelectSeq(Within(entry, "infoLinks", "infoLink"),
              LAMBDA l : Len(Tagged(l.children, "modifiers")) > 0)

\* C5: the name of an infoLink with modifiers is its base name followed by
\* the values of its modifiers of type "append" on field "name", in order,
\* other modifiers adding nothing; that synthesized name, never the base
\* name, is what is classified against the registry and what appears in
\* abilities: "Deadly Demise" with append value " D3" is "Deadly Demise D3".
SynthesizedClassification ==
    Returned(abilities) =>
        /\ \A i \in 1..Len(ModifiedLinks(source)) :
              ClassifiedByRegistry(SynthesizedName(ModifiedLinks(source)[i]))
        /\ CoreNames(abilities) \cup OtherNames(abilities)
              \subseteq LinkNames(source) \cup ProfileNames(source)
        /\ \A i \in 1..Len(ModifiedLinks(source)) :
              (/\ AttrOr(ModifiedLinks(source)[i], "name", <<>>) = <<"Deadly Demise">>
               /\ Len(Within(ModifiedLinks(source)[i], "modifiers", "modifier")) = 1
               /\ AppendedBy(Within(ModifiedLinks(source)[i],
                                    "modifiers", "modifier")[1]) = <<" ", "D3">>)
              => ClassifiedByRegistry(<<"Deadly Demise", " ", "D3">>)

\* the registry holds the base name "Deadly Demise" but not the synthesized
\* "Deadly Demise D3", which went to abilities.other
SynthesizedClassificationWitness ==
    /\ Returned(abilities)
    /\ <<"Deadly Demise">> \in shared_rules
    /\ <<"Deadly Demise", " ", "D3">> \notin shared_rules
    /\ \E i \in 1..Len(ModifiedLinks(source)) :
          SynthesizedName(ModifiedLinks(source)[i]) = <<"Deadly Demise", " ", "D3">>
    /\ <<"Deadly Demise", " ", "D3">> \in OtherNames(abilities)
    /\ <<"Deadly Demise">> \notin CoreNames(abilities)

\* the profiles of the nested selection entries that have the type identifier,
\* in source order
SourceWeapons(entry, typeId) ==
    SelectSeq(
        Concat([i \in 1..Len(Within(entry, "selectionEntries", "selectionEntry")) |->
                  Within(Within(entry, "selectionEntries", "selectionEntry")[i],
                         "profiles", "profile")]),
        LAMBDA p : AttrOr(p, "typeId", <<>>) = <<typeId>>)

\* the text of the last Range characteristic of a profile element
RangeOf(profile) ==
    LET ranges == SelectSeq(Within(profile, "characteristics", "characteristic"),
                            LAMBDA c : AttrOr(c, "name", <<>>) = <<"Range">>)
    IN IF Len(ranges) = 0 THEN <<>> ELSE strip(ranges[Len(ranges)].text)

\* the profiles of a weapon group
GroupProfiles(group) == Item(group, "profiles").v

\* the names of the profiles of a weapon group
GroupNames(group) ==
    {Item(GroupProfiles(group)[k], "name").v : k \in 1..Len(GroupProfiles(group))}

\* the group holds exactly the source profiles of that name, in source order
HoldsInOrder(group, named) ==
    /\ Len(GroupProfiles(group)) = Len(named)
    /\ \A k \in 1..Len(named) :
          /\ Item(GroupProfiles(group)[k], "name").v = AttrOr(named[k], "name", <<>>)
          /\ Get(GroupProfiles(group)[k], "range", Empty).v = RangeOf(named[k])

\* the groups `weapons` partition the source profiles `profiles` by name
GroupedByName(weapons, profiles) ==
    /\ \A g, h \in 1..Len(weapons.v) :
          g # h => GroupNames(weapons.v[g]) \cap GroupNames(weapons.v[h]) = {}
    /\ \A g \in 1..Len(weapons.v) : Cardinality(GroupNames(weapons.v[g])) = 1
    /\ \A i \in 1..Len(profiles) :
          \E g \in 1..Len(weapons.v) :
              HoldsInOrder(weapons.v[g],
                           SelectSeq(profiles,
                                     LAMBDA p : AttrOr(p, "name", <<>>)
                                                = AttrOr(profiles[i], "name", <<>>)))

\* C6: in extract_weapons(entry, kind) all profiles of the requested kind that
\* share a weapon name, from one nested selection entry or from several, are
\* in exactly one weapon group, whose profiles list holds them in source
\* order; two distinct groups never hold profiles of the same name.
WeaponGrouping ==
    /\ Returned(rangedWeapons) =>
          GroupedByName(rangedWeapons, SourceWeapons(source, RangedTypeId))
    /\ Returned(meleeWeapons) =>
          GroupedByName(meleeWeapons, SourceWeapons(source, MeleeTypeId))

\* three ranged profiles named alike, from two nested entries, in one group
WeaponGroupingWitness ==
    /\ Returned(rangedWeapons)
    /\ Len(Within(source, "selectionEntries", "selectionEntry")) = 2
    /\ \E g \in 1..Len(rangedWeapons.v) :
          Len(GroupProfiles(rangedWeapons.v[g])) = 3

\* C7: after load_shared_rules, when the companion game-system document could
\* not be located or could not be parsed, the registry is the built-in
\* fallback name set.
RegistryFallback ==
    (pc \notin {"start", "exited"}
     /\ game_system_file.status \in {"missing", "malformed"}) =>
        shared_rules = FallbackRules

\* C8: for a selection entry that is a normaliser output, extract_datasheet
\* and extract_enhancements return without raising whichever optional parts
\* are absent: a part lacking its name (a text-only characteristic included),
\* or a container that is empty or text-only.
ExtractionNeverRaises ==
    (clean_tag_name(source.tag) = "selectionEntry" /\ Len(source.attrib) > 0) =>
        ~Raised(datasheet) /\ ~Raised(enhancement)

\* the four profile type identifiers the sub-extractors know
KnownTypeIds == {UnitTypeId, RangedTypeId, MeleeTypeId, AbilityTypeId}

\* a profile element with no typeId or with a typeId outside the four
Unrecognized(profile) ==
    AttrOr(profile, "typeId", <<>>) \notin {<<t>> : t \in KnownTypeIds}

\* the children of an element that remain when the unrecognized profiles of a
\* profiles container are removed
Recognized(element) ==
    IF clean_tag_name(element.tag) = "profiles"
    THEN SelectSeq(element.children,
                   LAMBDA c : ~(clean_tag_name(c.tag) = "profile" /\ Unrecognized(c)))
    ELSE element.children

\* the element with every unrecognized profile removed, at every depth
RECURSIVE WithoutUnrecognized(_)
WithoutUnrecognized(element) ==
    [element EXCEPT !.children =
        [i \in 1..Len(Recognized(element)) |->
            WithoutUnrecognized(Recognized(element)[i])]]

\* C9: a profile whose typeId is none of the four known identifiers, or which
\* has no typeId, contributes nothing: whatever an extraction returns for an
\* entry, it returns for the entry with all such profiles removed, for
\* abilities, stats, rangedWeapons, meleeWeapons and the enhancement
\* description.
UnrecognizedContributeNothing ==
    /\ Returned(abilities) =>
          abilities = extract_abilities(
                         parse_xml_to_dict(WithoutUnrecognized(source)), shared_rules)
    /\ Returned(stats) =>
          stats = extract_stats(parse_xml_to_dict(WithoutUnrecognized(source)))
    /\ Returned(rangedWeapons) =>
          rangedWeapons = extract_weapons(
                             parse_xml_to_dict(WithoutUnrecognized(source)), "ranged")
    /\ Returned(meleeWeapons) =>
          meleeWeapons = extract_weapons(
                            parse_xml_to_dict(WithoutUnrecognized(source)), "melee")
    /\ IsRec(enhancement) =>
          Get(extract_enhancements(
                 parse_xml_to_dict(WithoutUnrecognized(source)), "uuid-1"),
              "description", None)
          = Item(enhancement, "description")

\* an entry with a recognized and an unrecognized profile, both described,
\* gave one ability
UnrecognizedContributeNothingWitness ==
    /\ Returned(abilities)
    /\ Len(Within(source, "profiles", "profile")) = 2
    /\ Len(Within(WithoutUnrecognized(source), "profiles", "profile")) = 1
    /\ \E i \in 1..2 :
          /\ Unrecognized(Within(source, "profiles", "profile")[i])
          /\ HasAttr(Within(source, "profiles", "profile")[i], "typeId")
          /\ Len(Within(Within(source, "profiles", "profile")[i],
                        "characteristics", "characteristic")) > 0
    /\ Len(Item(abilities, "other").v) + Len(Item(abilities, "core").v) = 1

\* the cost elements of an entry named "pts", in source order
PtsCosts(entry) ==
    SelectSeq(Within(entry, "costs", "cost"),
              LAMBDA c : AttrOr(c, "name", <<>>) = <<"pts">>)

\* C10: extract_points returns, in source order, exactly one row
\* {name: "model", model: "1", cost: the cost's value} for each cost of the
\* entry named "pts" and no row for any other cost, for one cost or several;
\* the entry with the single cost pts=100 yields [{model, 1, 100}].
PointsPerPtsCost ==
    Returned(points) =>
        /\ Len(points.v) = Len(PtsCosts(source))
        /\ \A i \in 1..Len(points.v) :
              /\ Keys(points.v[i]) = {"name", "model", "cost"}
              /\ Item(points.v[i], "name") = S("model")
              /\ Item(points.v[i], "model") = S("1")
              /\ HasAttr(PtsCosts(source)[i], "value") =>
                    Item(points.v[i], "cost")
                    = Str(AttrOf(PtsCosts(source)[i], "value"))
        /\ (/\ Len(Within(source, "costs", "cost")) = 1
            /\ AttrOr(Within(source, "costs", "cost")[1], "name", <<>>) = <<"pts">>
            /\ AttrOr(Within(source, "costs", "cost")[1], "value", <<>>) = <<"100">>)
           => points = Lst(<<Rec(<< <<"name", S("model")>>, <<"model", S("1")>>,
                                    <<"cost", S("100")>> >>)>>)

\* two costs, one of them named "pts", gave one row
PointsPerPtsCostWitness ==
    /\ Returned(points)
    /\ Len(Within(source, "costs", "cost")) = 2
    /\ Len(PtsCosts(source)) = 1
    /\ Len(points.v) = 1

(***************************************************************************)
(* The result of transform_data and the command line                       *)
(***************************************************************************)
TopLevelFields ==
    {"id", "name", "is_subfaction", "parent_id", "parent_keyword", "link",
     "compatibleDataVersion", "colours", "allied_factions", "datasheets",
     "enhancements", "rules"}

\* transform_data returned a non-empty result
NonEmptyResult == Returned(transformed) /\ Truthy(transformed)

\* C11: every non-empty result of transform_data, and so every output file
\* that run wrote, contains the twelve top-level fields id, name,
\* is_subfaction, parent_id, parent_keyword, link, compatibleDataVersion,
\* colours, allied_factions, datasheets, enhancements and rules, whatever the
\* reference document holds.
TwelveTopLevelFields ==
    /\ NonEmptyResult => TopLevelFields \subseteq Keys(transformed)
    /\ (pc = "done" /\ IsRec(output_file)) =>
          TopLevelFields \subseteq Keys(output_file)

\* C12: when the source path or the reference path of the command line does
\* not exist, the program prints a message, ends with a non-zero exit status,
\* and leaves the output path as it was: no file created, none modified.
MissingPathRefused ==
    (pc # "start" /\ ~PathsExist) =>
        /\ pc = "exited"
        /\ printed # ""
        /\ exit_status \notin {NotRun, PyInt(0)}
        /\ output_file \in {Absent, Old}
        /\ transformed = NotRun

(***************************************************************************)
(* The batch conversion                                                    *)
(***************************************************************************)
\* the document cannot be read or does not parse
Fails(file) == file.status # "ok"

\* C13: in the batch conversion a document that fails to read or to parse
\* produces no output file for itself and does not stop the batch: every
\* document of the source directory is eventually processed, whatever the
\* position of the failing ones in the processing order, and each document
\* that parses gets its output written (where the destination can be
\* written), holding the normalised value of a document of that stem.
BatchSurvivesFailures ==
    /\ [](\A file \in processed : Fails(file) => file \notin converted)
    /\ [](\A stem \in Stems :
             (\A file \in cat_dir : file.name = stem => Fails(file)) =>
                 output_dir[stem] = Absent)
    /\ [](\A file \in converted :
             \E other \in converted :
                 /\ other.name = file.name
                 /\ output_dir[file.name] = parse_xml_to_dict(other.root))
    /\ \A file \in CatFiles :
          (file \in cat_dir) ~>
              /\ pc = "converted"
              /\ file \in processed
              /\ (~Fails(file) /\ file.writable) => file \in converted

\* the batch has ended; failing documents were processed in both groups, and
\* documents of both groups were written
BatchSurvivesFailuresWitness ==
    /\ pc = "converted"
    /\ cat_dir = CatFiles
    /\ \E file \in processed : Fails(file) /\ file.ext = "cat"
    /\ \E file \in processed : Fails(file) /\ file.ext = "gst"
    /\ \E file \in converted : file.ext = "cat"
    /\ \E file \in converted : file.ext = "gst"
    /\ output_dir["f"] = Rec(<<>>)
    /\ output_dir["b"] = Absent

(***************************************************************************)
(* The registry and the normalised entry are read-only inputs              *)
(***************************************************************************)
\* a step of an extractor operation or of transform_data
ExtractorStep ==
    \/ abilities' # abilities
    \/ stats' # stats
    \/ rangedWeapons' # rangedWeapons
    \/ meleeWeapons' # meleeWeapons
    \/ keywords' # keywords
    \/ points' # points
    \/ datasheet' # datasheet
    \/ enhancement' # enhancement
    \/ transformed' # transformed

\* C14: within a run the shared-rule registry is loaded before any entry is
\* extracted, and from then on no extractor operation (extract_abilities,
\* extract_stats, extract_weapons, extract_keywords, extract_points,
\* extract_datasheet, extract_enhancements, extract_rules, transform_data)
\* changes the registry or the normalised entry it is given.
RegistryAndEntryReadOnly ==
    [][/\ ExtractorStep =>
             /\ pc \notin {"start", "exited"}
             /\ shared_rules' = shared_rules
             /\ result' = result
       /\ pc \notin {"start", "exited"} => shared_rules' = shared_rules
       /\ pc \in {"parsed", "transformed", "done"} => result' = result]_vars

\* extractor operations and transform_data have run on a loaded, non-empty
\* registry and a normalised entry that are as they were
RegistryAndEntryReadOnlyWitness ==
    /\ pc \in {"done", "transformed"}
    /\ Returned(abilities) \/ Returned(datasheet) \/ NonEmptyResult
    /\ shared_rules = load_shared_rules(game_system_file, {})
    /\ shared_rules # {}
    /\ result = parse_xml_to_dict(source)

(***************************************************************************)
(* Attributes of the normalised element                                    *)
(***************************************************************************)
\* C15: for every attribute a=v of the element passed to parse_xml_to_dict
\* the result is a record whose field a holds the scalar v, whatever the
\* element's children (a child tagged a included) and its text (an attribute
\* named _text on an element with text included).
AttributesBecomeScalars ==
    Parsed =>
        \A i \in 1..Len(source.attrib) :
            /\ IsRec(result)
            /\ source.attrib[i][1] \in Keys(result)
            /\ Item(result, source.attrib[i][1]) = Str(source.attrib[i][2])

(***************************************************************************)
(* The shape of a datasheet                                                *)
(***************************************************************************)
DatasheetKeys ==
    {"id", "name", "cardType", "factions", "faction_id", "source",
     "abilities", "stats", "rangedWeapons", "meleeWeapons", "keywords",
     "points", "composition", "fluff", "leader", "loadout", "transport",
     "wargear"}

\* the element has a name and no child other than costs
OnlyNameAndCosts(element) ==
    /\ HasAttr(element, "name")
    /\ \A i \in 1..Len(element.children) :
          clean_tag_name(element.children[i].tag) = "costs"

\* C16: every datasheet extract_datasheet returns has the eighteen keys id,
\* name, cardType, factions, faction_id, source, abilities, stats,
\* rangedWeapons, meleeWeapons, keywords, points, composition, fluff, leader,
\* loadout, transport and wargear, whichever sub-paths the entry has; for a
\* model entry with only a name and costs, stats, rangedWeapons, meleeWeapons
\* and keywords are empty lists.
EighteenKeys ==
    (Returned(datasheet) /\ datasheet # None) =>
        /\ IsRec(datasheet)
        /\ Keys(datasheet) = DatasheetKeys
        /\ Len(datasheet.v) = 18
        /\ OnlyNameAndCosts(source) =>
              \A k \in {"stats", "rangedWeapons", "meleeWeapons", "keywords"} :
                  Item(datasheet, k) = Lst(<<>>)

\* a datasheet of a model entry that has a name, one costs child and nothing
\* else: it has points and its other lists are empty
EighteenKeysWitness ==
    /\ Returned(datasheet)
    /\ IsRec(datasheet)
    /\ OnlyNameAndCosts(source)
    /\ Len(source.children) = 1
    /\ Len(Item(datasheet, "points").v) = 1
    /\ Item(datasheet, "stats") = Lst(<<>>)

(***************************************************************************)
(* The top-level walk of transform_data                                    *)
(***************************************************************************)
\* the selectionEntry children of the document's sharedSelectionEntries
DirectEntries == Within(source, "sharedSelectionEntries", "selectionEntry")

\* those of the given type, in source order
DirectOfType(type) == SelectSeq(DirectEntries, LAMBDA e : TypeIs(e, type))

\* the entries nested in the selectionEntries of the direct entries
NestedEntries ==
    Concat([i \in 1..Len(DirectEntries) |->
              Within(DirectEntries[i], "selectionEntries", "selectionEntry")])

\* the name attribute of an element as a Python str, "" when absent
NameOf(element) == Str(AttrOr(element, "name", <<>>))

\* the datasheets are those of the elements, one for one and in order
DatasheetsOf(cards, elements) ==
    /\ Len(cards) = Len(elements)
    /\ \A i \in 1..Len(cards) :
          \E id \in UUIDs :
              cards[i] = extract_datasheet(parse_xml_to_dict(elements[i]),
                                           shared_rules, id)

\* the enhancements are those of the elements, one for one and in order
EnhancementsOf(cards, elements) ==
    /\ Len(cards) = Len(elements)
    /\ \A i \in 1..Len(cards) :
          \E id \in UUIDs :
              cards[i] = extract_enhancements(parse_xml_to_dict(elements[i]), id)

\* the names of the cards are the names of the elements, in order
NamedAs(cards, elements) ==
    /\ Len(cards) = Len(elements)
    /\ \A i \in 1..Len(cards) :
          IsRec(cards[i]) /\ Item(cards[i], "name") = NameOf(elements[i])

\* no card carries the name of one of the elements
NoneOf(cards, elements) ==
    \A i \in 1..Len(cards), j \in 1..Len(elements) :
        Item(cards[i], "name") # NameOf(elements[j])

\* C17: transform_data builds datasheets as exactly the direct children of
\* sharedSelectionEntries whose type is "model", in source order, and
\* enhancements as exactly the direct children whose type is "upgrade", in
\* source order, the same for a single entry (bare record) as for several
\* (list); an entry nested in another entry's selectionEntries never produces
\* a card, so the two lists together are never longer than the direct entries.
TopLevelWalk ==
    NonEmptyResult =>
        /\ IsList(Item(transformed, "datasheets"))
        /\ IsList(Item(transformed, "enhancements"))
        /\ NamedAs(Item(transformed, "datasheets").v, DirectOfType("model"))
        /\ NamedAs(Item(transformed, "enhancements").v, DirectOfType("upgrade"))
        /\ DatasheetsOf(Item(transformed, "datasheets").v, DirectOfType("model"))
        /\ EnhancementsOf(Item(transformed, "enhancements").v,
                          DirectOfType("upgrade"))
        /\ NoneOf(Item(transformed, "datasheets").v, NestedEntries)
        /\ NoneOf(Item(transformed, "enhancements").v, NestedEntries)
        /\ Len(Item(transformed, "datasheets").v)
           + Len(Item(transformed, "enhancements").v) <= Len(DirectEntries)

\* two direct entries, a model entry that nests a model and an upgrade entry
\* followed by an upgrade entry: one datasheet, one enhancement
TopLevelWalkWitness ==
    /\ NonEmptyResult
    /\ Len(DirectEntries) = 2
    /\ Len(NestedEntries) = 2
    /\ TypeIs(DirectEntries[1], "model")
    /\ TypeIs(DirectEntries[2], "upgrade")
    /\ Len(Item(transformed, "datasheets").v) = 1
    /\ Len(Item(transformed, "enhancements").v) = 1

\* a single direct entry, normalised to a bare record, gave one datasheet
SingleEntryWalked ==
    /\ NonEmptyResult
    /\ Len(DirectEntries) = 1
    /\ IsRec(Item(Item(result, "sharedSelectionEntries"), "selectionEntry"))
    /\ Len(Item(transformed, "datasheets").v) = 1

(***************************************************************************)
(* The rows of extract_stats                                               *)
(***************************************************************************)
\* the profiles of the entry that are unit profiles with a non-empty name
NamedUnitProfiles(entry) ==
    SelectSeq(Within(entry, "profiles", "profile"),
              LAMBDA p : /\ HasAttr(p, "typeId")
                         /\ AttrOf(p, "typeId") = <<UnitTypeId>>
                         /\ Len(AttrOr(p, "name", <<>>)) > 0)

\* the profile has a characteristic of that name
HasCharacteristic(profile, name) ==
    \E i \in 1..Len(Within(profile, "characteristics", "characteristic")) :
        AttrOr(Within(profile, "characteristics", "characteristic")[i],
               "name", <<>>) = <<name>>

\* the characteristic name each key of a row stands for
StatNames ==
    { <<"m", "M">>, <<"t", "T">>, <<"sv", "SV">>, <<"w", "W">>,
      <<"ld", "LD">>, <<"oc", "OC">> }

\* C18: extract_stats returns, in source order, exactly one row for each
\* profile of the entry whose typeId is the unit-profile identifier and whose
\* name is non-empty, and no other row; in each row the key m, t, sv, w, ld
\* or oc is present if and only if the profile has a characteristic named M,
\* T, SV, W, LD or OC, for one characteristic (bare record) as for several.
StatRowsPerUnitProfile ==
    Returned(stats) =>
        /\ IsList(stats)
        /\ Len(stats.v) = Len(NamedUnitProfiles(source))
        /\ \A i \in 1..Len(stats.v) :
              /\ IsRec(stats.v[i])
              /\ Item(stats.v[i], "name") = NameOf(NamedUnitProfiles(source)[i])
              /\ \A kn \in StatNames :
                    kn[1] \in Keys(stats.v[i]) <=>
                        HasCharacteristic(NamedUnitProfiles(source)[i], kn[2])

\* three unit profiles, the second with an empty name: two rows, the first
\* with the six keys, the second, of a single characteristic, with oc alone
StatRowsPerUnitProfileWitness ==
    /\ Returned(stats)
    /\ Len(Within(source, "profiles", "profile")) = 3
    /\ Len(NamedUnitProfiles(source)) = 2
    /\ Len(stats.v) = 2
    /\ {"m", "t", "sv", "w", "ld", "oc"} \subseteq Keys(stats.v[1])
    /\ "oc" \in Keys(stats.v[2])
    /\ "m" \notin Keys(stats.v[2])

(***************************************************************************)
(* The depth at which extract_weapons finds profiles                       *)
(***************************************************************************)
OfTypeId(profiles, typeId) ==
    SelectSeq(profiles, LAMBDA p : AttrOr(p, "typeId", <<>>) = <<typeId>>)

\* the weapon profiles among the unit entry's own profiles
OwnWeapons(entry, typeId) ==
    OfTypeId(Within(entry, "profiles", "profile"), typeId)

\* the entries nested two levels below the unit entry
DeepEntries(entry) ==
    Concat([i \in 1..Len(Within(entry, "selectionEntries", "selectionEntry")) |->
              Within(Within(entry, "selectionEntries", "selectionEntry")[i],
                     "selectionEntries", "selectionEntry")])

\* the weapon profiles of the entries nested two levels below the unit entry
DeepWeapons(entry, typeId) ==
    OfTypeId(Concat([i \in 1..Len(DeepEntries(entry)) |->
                       Within(DeepEntries(entry)[i], "profiles", "profile")]),
             typeId)

\* the profiles of all the groups of a weapons list
AllProfiles(weapons) ==
    Concat([g \in 1..Len(weapons.v) |-> GroupProfiles(weapons.v[g])])

\* the names of a sequence of profile elements
ElementNames(profiles) ==
    {AttrOr(profiles[i], "name", <<>>) : i \in 1..Len(profiles)}

\* the names of a sequence of extracted weapon profiles
ProfileNamesOf(profiles) ==
    {Item(profiles[i], "name").v : i \in 1..Len(profiles)}

\* the extracted profiles are those found one level down, and no profile found
\* only elsewhere is among them
OneLevelOnly(weapons, entry, typeId) ==
    /\ Len(AllProfiles(weapons)) = Len(SourceWeapons(entry, typeId))
    /\ ProfileNamesOf(AllProfiles(weapons))
          = ElementNames(SourceWeapons(entry, typeId))
    /\ \A n \in (ElementNames(OwnWeapons(entry, typeId))
                 \cup ElementNames(DeepWeapons(entry, typeId)))
                \ ElementNames(SourceWeapons(entry, typeId)) :
          n \notin ProfileNamesOf(AllProfiles(weapons))

\* C19: extract_weapons reaches weapon profiles through exactly one level of
\* nesting: a ranged or melee profile in the profiles of a selection entry
\* directly under the unit's selectionEntries is extracted; one in the unit
\* entry's own profiles, or in an entry nested two or more levels deep, never
\* appears in rangedWeapons or meleeWeapons.
WeaponsOneLevelDown ==
    /\ Returned(rangedWeapons) =>
          OneLevelOnly(rangedWeapons, source, RangedTypeId)
    /\ Returned(meleeWeapons) =>
          OneLevelOnly(meleeWeapons, source, MeleeTypeId)

\* the unit has a ranged profile of its own, one in a nested entry and one two
\* levels down: the nested one alone is extracted
WeaponsOneLevelDownWitness ==
    /\ Returned(rangedWeapons)
    /\ Len(OwnWeapons(source, RangedTypeId)) = 1
    /\ Len(DeepWeapons(source, RangedTypeId)) = 1
    /\ Len(SourceWeapons(source, RangedTypeId)) = 1
    /\ ProfileNamesOf(AllProfiles(rangedWeapons)) = {<<"Bolter">>}
    /\ meleeWeapons = Lst(<<>>)

(***************************************************************************)
(* The keywords of an entry                                                *)
(***************************************************************************)
\* the categoryLink elements of the entry
CategoryLinks(entry) == Within(entry, "categoryLinks", "categoryLink")

\* those that carry a name, in source order
NamedLinks(entry) ==
    SelectSeq(CategoryLinks(entry), LAMBDA l : HasAttr(l, "name"))

\* an entry whose categoryLink is the one-element sequence of the given link
WithLinkList(link) ==
    Rec(<< <<"categoryLinks", Rec(<< <<"categoryLink", Lst(<<link>>)>> >>)>> >>)

\* C20: extract_keywords returns the name fields of the entry's categoryLink
\* records in source order, duplicates kept; a single link (bare record) gives
\* what a one-element sequence of it gives; the length of the output is the
\* number of category links that carry a name.
KeywordsInOrder ==
    Returned(keywords) =>
        /\ IsList(keywords)
        /\ Len(keywords.v) = Len(NamedLinks(source))
        /\ \A i \in 1..Len(keywords.v) :
              keywords.v[i] = Str(AttrOf(NamedLinks(source)[i], "name"))
        /\ Len(CategoryLinks(source)) = 1 =>
              extract_keywords(
                  WithLinkList(parse_xml_to_dict(CategoryLinks(source)[1])))
              = keywords

\* two links of the same name: the keyword is returned twice
KeywordsInOrderWitness ==
    /\ Returned(keywords)
    /\ Len(CategoryLinks(source)) = 2
    /\ keywords = Lst(<<S("Infantry"), S("Infantry")>>)

\* a single named link, normalised to a bare record, gave one keyword
SingleLinkKeyword ==
    /\ Returned(keywords)
    /\ Len(CategoryLinks(source)) = 1
    /\ IsRec(Item(Item(result, "categoryLinks"), "categoryLink"))
    /\ Len(keywords.v) = 1

(***************************************************************************)
(* The description of an enhancement                                       *)
(***************************************************************************)
\* the texts of the characteristics named Description of a profile element
DescriptionsOf(profile) ==
    [i \in 1..Len(SelectSeq(Within(profile, "characteristics", "characteristic"),
                            LAMBDA c : AttrOr(c, "name", <<>>) = <<"Description">>))
       |-> strip(SelectSeq(Within(profile, "characteristics", "characteristic"),
                           LAMBDA c : AttrOr(c, "name", <<>>)
                                      = <<"Description">>)[i].text)]

\* the ability-typed profiles of an entry, in source order
AbilityProfiles(entry) ==
    SelectSeq(Within(entry, "profiles", "profile"),
              LAMBDA p : AttrOr(p, "typeId", <<>>) = <<AbilityTypeId>>)

\* the Description texts of the ability-typed profiles, in source order
SourceDescriptions(entry) ==
    Concat([i \in 1..Len(AbilityProfiles(entry)) |->
              DescriptionsOf(AbilityProfiles(entry)[i])])

\* the last of them, the empty text when there is none
LastDescription(texts) == IF Len(texts) = 0 THEN <<>> ELSE texts[Len(texts)]

\* the description of the last record of abilities.other
LastOtherDescription(a) ==
    Item(Item(a, "other").v[Len(Item(a, "other").v)], "description")

\* what extract_abilities stores for the last described profile when no name
\* is a shared rule: the description of the last record of other
StoredByAbilities(a, description) ==
    Returned(a) => LastOtherDescription(a) = description

\* C21: for an upgrade entry extract_enhancements sets description to the
\* text of the characteristic named "Description" of an ability-typed profile
\* of the entry, the text extract_abilities stores as that ability's
\* description; it is the empty string when there is no such characteristic,
\* and the last one in source order when there are several.
EnhancementDescriptionIsLast ==
    (Returned(enhancement) /\ enhancement # None) =>
        /\ IsRec(enhancement)
        /\ Item(enhancement, "description")
              = Str(LastDescription(SourceDescriptions(source)))
        /\ Len(SourceDescriptions(source)) > 0 =>
              StoredByAbilities(extract_abilities(result, {}),
                                Item(enhancement, "description"))

\* an upgrade entry whose ability-typed profiles carry two different
\* descriptions: the second is kept
EnhancementDescriptionIsLastWitness ==
    /\ Returned(enhancement)
    /\ IsRec(enhancement)
    /\ Len(SourceDescriptions(source)) = 2
    /\ SourceDescriptions(source)[1] # SourceDescriptions(source)[2]
    /\ Item(enhancement, "description") = Str(SourceDescriptions(source)[2])
    /\ Item(enhancement, "description") # Empty

\* an upgrade entry without a Description characteristic: the description is ""
NoDescriptionIsEmpty ==
    /\ Returned(enhancement)
    /\ IsRec(enhancement)
    /\ Len(Within(source, "profiles", "profile")) > 0
    /\ Len(SourceDescriptions(source)) = 0
    /\ Item(enhancement, "description") = Empty

\* C22: after the batch conversion has completed every source document that
\* parsed has an output file that holds that document's own normalised value:
\* no output is overwritten by the output of another document of the batch
\* (a .cat and a .gst file of the same stem), so the final outputs do not
\* depend on the processing order.
EachOutputIsItsOwn ==
    pc = "converted" =>
        \A file \in cat_dir :
            (~Fails(file) /\ file.writable) =>
                output_dir[file.name] = parse_xml_to_dict(file.root)

(***************************************************************************)
(* Ranged and melee weapons partition the nested weapon profiles           *)
(***************************************************************************)
\* what identifies a source profile: its name and its range
SourcePair(profile) == <<AttrOr(profile, "name", <<>>), RangeOf(profile)>>

\* what identifies an extracted profile: its name and its range
ExtractedPair(weapon_profile) ==
    <<Item(weapon_profile, "name").v, Get(weapon_profile, "range", Empty).v>>

\* how many of the source profiles are the pair
SourceCount(profiles, pair) ==
    Cardinality({i \in 1..Len(profiles) : SourcePair(profiles[i]) = pair})

\* how many of the extracted profiles are the pair
ExtractedCount(weapon_profiles, pair) ==
    Cardinality({i \in 1..Len(weapon_profiles) :
                    ExtractedPair(weapon_profiles[i]) = pair})

\* the extracted profiles are the source profiles, each exactly once
EachExactlyOnce(weapon_profiles, profiles) ==
    /\ Len(weapon_profiles) = Len(profiles)
    /\ \A i \in 1..Len(profiles) :
          ExtractedCount(weapon_profiles, SourcePair(profiles[i]))
             = SourceCount(profiles, SourcePair(profiles[i]))
    /\ \A i \in 1..Len(weapon_profiles) :
          SourceCount(profiles, ExtractedPair(weapon_profiles[i])) > 0

\* no extracted profile is one of the source profiles
NoneExtracted(weapon_profiles, profiles) ==
    \A i \in 1..Len(profiles) :
        ExtractedCount(weapon_profiles, SourcePair(profiles[i])) = 0

\* the source profiles of one kind whose pair no profile of the other kind has
OnlyOfKind(entry, typeId, otherId) ==
    SelectSeq(SourceWeapons(entry, typeId),
              LAMBDA p : SourceCount(SourceWeapons(entry, otherId),
                                     SourcePair(p)) = 0)

\* C23: the ranged and melee extractions partition the weapon profiles of the
\* directly nested selection entries of a unit entry: each profile with the
\* ranged typeId is exactly once in rangedWeapons and never in meleeWeapons,
\* each with the melee typeId exactly once in meleeWeapons and never in
\* rangedWeapons, and the profiles over all groups of a kind are as many as
\* the source profiles of that kind, those without a name included.
WeaponsPartition ==
    (Returned(rangedWeapons) /\ Returned(meleeWeapons)) =>
        /\ EachExactlyOnce(AllProfiles(rangedWeapons),
                           SourceWeapons(source, RangedTypeId))
        /\ EachExactlyOnce(AllProfiles(meleeWeapons),
                           SourceWeapons(source, MeleeTypeId))
        /\ NoneExtracted(AllProfiles(meleeWeapons),
                         OnlyOfKind(source, RangedTypeId, MeleeTypeId))
        /\ NoneExtracted(AllProfiles(rangedWeapons),
                         OnlyOfKind(source, MeleeTypeId, RangedTypeId))

\* a nested entry with a ranged profile without a name and a melee profile:
\* each is in the list of its kind alone
WeaponsPartitionWitness ==
    /\ Returned(rangedWeapons)
    /\ Returned(meleeWeapons)
    /\ Len(SourceWeapons(source, RangedTypeId)) = 1
    /\ Len(SourceWeapons(source, MeleeTypeId)) = 1
    /\ AttrOr(SourceWeapons(source, RangedTypeId)[1], "name", <<>>) = <<>>
    /\ Len(AllProfiles(rangedWeapons)) = 1
    /\ Item(AllProfiles(rangedWeapons)[1], "name") = Empty
    /\ Len(AllProfiles(meleeWeapons)) = 1

(***************************************************************************)
(* The entries of abilities.core and abilities.other, counted and ordered  *)
(***************************************************************************)
\* the names the infoLinks of an entry resolve to, in source order
LinkNameSeq(entry) ==
    [i \in 1..Len(Within(entry, "infoLinks", "infoLink")) |->
        SynthesizedName(Within(entry, "infoLinks", "infoLink")[i])]

\* the name of a profile, once for each of its Description characteristics
\* when it is ability-typed, never otherwise
NamePerDescription(profile) ==
    IF AttrOr(profile, "typeId", <<>>) = <<AbilityTypeId>>
    THEN [j \in 1..Len(DescriptionsOf(profile)) |-> AttrOr(profile, "name", <<>>)]
    ELSE <<>>

\* the names the profiles of an entry contribute, in source order
ProfileNameSeq(entry) ==
    Concat([i \in 1..Len(Within(entry, "profiles", "profile")) |->
              NamePerDescription(Within(entry, "profiles", "profile")[i])])

\* the names of abilities.core, in order
CoreNameSeq(a) == [i \in 1..Len(Item(a, "core").v) |-> Item(a, "core").v[i].v]

\* the names of the records of abilities.other, in order
OtherNameSeq(a) ==
    [i \in 1..Len(Item(a, "other").v) |-> Item(Item(a, "other").v[i], "name").v]

\* the names of a sequence that the registry holds, in order
InRegistry(names) == SelectSeq(names, LAMBDA n : n \in shared_rules)

\* the names of a sequence that the registry does not hold, in order
NotInRegistry(names) == SelectSeq(names, LAMBDA n : n \notin shared_rules)

\* C24: in extract_abilities an ability-typed profile contributes exactly one
\* entry, to core or to other, for each of its characteristics named
\* "Description": none for a profile without one, k for a profile with k;
\* within core and within other the entries that come from infoLinks precede
\* those that come from profiles.
OneEntryPerDescription ==
    Returned(abilities) =>
        /\ CoreNameSeq(abilities)
              = InRegistry(LinkNameSeq(source)) \o InRegistry(ProfileNameSeq(source))
        /\ OtherNameSeq(abilities)
              = NotInRegistry(LinkNameSeq(source))
                \o NotInRegistry(ProfileNameSeq(source))
        /\ Len(Item(abilities, "core").v) + Len(Item(abilities, "other").v)
              = Len(LinkNameSeq(source)) + Len(ProfileNameSeq(source))

\* two infoLinks and two described profiles, one name of each pair in the
\* registry: core and other each hold the infoLink's entry before the profile's
OneEntryPerDescriptionWitness ==
    /\ Returned(abilities)
    /\ Len(LinkNameSeq(source)) = 2
    /\ Len(ProfileNameSeq(source)) = 2
    /\ Len(Item(abilities, "core").v) = 2
    /\ Len(Item(abilities, "other").v) = 2
    /\ Item(Item(abilities, "other").v[1], "showDescription") = Bool(FALSE)
    /\ Item(Item(abilities, "other").v[2], "showDescription") = Bool(TRUE)

\* a profile with two Description characteristics gave two entries, a second
\* profile, not ability-typed, gave none
TwoDescriptionsTwoEntries ==
    /\ Returned(abilities)
    /\ Len(Within(source, "profiles", "profile")) = 2
    /\ Len(NamePerDescription(Within(source, "profiles", "profile")[1])) = 2
    /\ Len(NamePerDescription(Within(source, "profiles", "profile")[2])) = 0
    /\ Len(Item(abilities, "core").v) + Len(Item(abilities, "other").v) = 2

\* an ability-typed profile without a Description characteristic gave nothing
NoDescriptionNoEntry ==
    /\ Returned(abilities)
    /\ Len(AbilityProfiles(source)) = 1
    /\ Len(Within(AbilityProfiles(source)[1], "characteristics",
                  "characteristic")) > 0
    /\ Len(ProfileNameSeq(source)) = 0
    /\ Len(Item(abilities, "core").v) + Len(Item(abilities, "other").v) = 0

====
